---- MODULE Spec2Model ----
(***************************************************************************)
(* A model of the trajectory representation and the temporal conflict      *)
(* detection engine of conflict_visualization.py: Waypoint,                *)
(* DroneTrajectory, Conflict and DeconflictionService.                     *)
(*                                                                         *)
(* Numbers.  A time is an integer: a datetime counted in microseconds,     *)
(* the resolution of datetime and timedelta.  A coordinate, a distance,    *)
(* an interpolation factor and a number of seconds is a Python number,     *)
(* [sign, man, exp, int], which stands for sign * man * 2^exp: the         *)
(* mantissa man is an odd natural number held as a sequence of limbs to    *)
(* the base 2^15, least significant first, zero is [0, <<>>, 0], and int   *)
(* tells a Python int from a Python float.  An int is exact at any size.   *)
(* A float is an IEEE 754 double, its mantissa below 2^53: +, -, *, / and  *)
(* math.sqrt give the double nearest to the exact result, a tie going to   *)
(* the even mantissa, as the hardware does, and ** 2 gives what the C      *)
(* library's pow gives (glibc 2.36 on x86-64 with FMA, the build the       *)
(* tables and the instruction order are taken from).  An operation on an   *)
(* int and a float is on the int's double.  Infinities, NaN, subnormal     *)
(* numbers and the sign of zero are not modelled.                          *)
(*                                                                         *)
(* Optional values.  Python's None is the empty sequence <<>> and a        *)
(* present value v is <<v>>.                                               *)
(***************************************************************************)
EXTENDS Integers, Sequences, FiniteSets, TLC

VARIABLES
    safety_buffer,            \* DeconflictionService.safety_buffer
    time_step,                \* DeconflictionService.time_step
    registered_trajectories,  \* DeconflictionService.registered_trajectories
    given,                    \* the arguments of the latest DroneTrajectory call
    traj,                     \* the trajectory that call produced: <<>> or <<t>>
    built,                    \* how the latest construction ended
    pos,                      \* the latest get_position_at_time call
    result,                   \* the latest check_mission_safety call
    previous,                 \* the check_mission_safety call before it, when
                              \* both had the same mission and registry
    found,                    \* the latest _find_conflicts call
    running                   \* a check_mission_safety call followed statement
                              \* by statement: its place and its locals

vars == <<safety_buffer, time_step, registered_trajectories, given, traj, built,
          pos, result, previous, found, running>>

None == <<>>

Some(v) == <<v>>

Abs(n) == IF n < 0 THEN -n ELSE n

Max(a, b) == IF a >= b THEN a ELSE b

Min(a, b) == IF a <= b THEN a ELSE b

----------------------------------------------------------------------------
(* Natural numbers of any size, as sequences of limbs: the mantissas of    *)
(* doubles and the exact sums, products, quotients and roots they are      *)
(* rounded from.  A number has no leading zero limb; 0 is <<>>.            *)

LimbBits == 15

Base == 32768

RECURSIVE BFromInt(_)
BFromInt(n) == IF n = 0 THEN <<>> ELSE <<n % Base>> \o BFromInt(n \div Base)

RECURSIVE BToInt(_)
BToInt(a) == IF a = <<>> THEN 0 ELSE a[1] + Base * BToInt(Tail(a))

Limb(a, i) == IF i >= 1 /\ i <= Len(a) THEN a[i] ELSE 0

RECURSIVE BTrim(_)
BTrim(a) ==
    IF a = <<>> \/ a[Len(a)] # 0 THEN a ELSE BTrim(SubSeq(a, 1, Len(a) - 1))

Zeros(n) == [i \in 1..n |-> 0]

RECURSIVE BitLength(_)
BitLength(x) == IF x = 0 THEN 0 ELSE 1 + BitLength(x \div 2)

\* The number of bits of a.
BLen(a) ==
    IF a = <<>> THEN 0 ELSE (Len(a) - 1) * LimbBits + BitLength(a[Len(a)])

RECURSIVE BCmpFrom(_, _, _)
BCmpFrom(a, b, i) ==
    IF i = 0 THEN 0
    ELSE IF a[i] < b[i] THEN -1
    ELSE IF a[i] > b[i] THEN 1
    ELSE BCmpFrom(a, b, i - 1)

\* -1, 0 or 1 as a is below, at or above b.
BCmp(a, b) ==
    IF Len(a) < Len(b) THEN -1
    ELSE IF Len(a) > Len(b) THEN 1
    ELSE BCmpFrom(a, b, Len(a))

RECURSIVE BAddFrom(_, _, _, _)
BAddFrom(a, b, i, carry) ==
    IF i > Len(a) /\ i > Len(b)
    THEN (IF carry = 0 THEN <<>> ELSE <<carry>>)
    ELSE LET t == Limb(a, i) + Limb(b, i) + carry
         IN  <<t % Base>> \o BAddFrom(a, b, i + 1, t \div Base)

BAdd(a, b) == BAddFrom(a, b, 1, 0)

RECURSIVE BSubFrom(_, _, _, _)
BSubFrom(a, b, i, borrow) ==
    IF i > Len(a) THEN <<>>
    ELSE LET t == a[i] - Limb(b, i) - borrow
         IN  IF t < 0 THEN <<t + Base>> \o BSubFrom(a, b, i + 1, 1)
             ELSE <<t>> \o BSubFrom(a, b, i + 1, 0)

\* a - b, for a >= b.
BSub(a, b) == BTrim(BSubFrom(a, b, 1, 0))

RECURSIVE BMulSmallFrom(_, _, _, _)
BMulSmallFrom(a, k, i, carry) ==
    IF i > Len(a) THEN (IF carry = 0 THEN <<>> ELSE <<carry>>)
    ELSE LET t == a[i] * k + carry
         IN  <<t % Base>> \o BMulSmallFrom(a, k, i + 1, t \div Base)

\* a * k, for a limb k.
BMulSmall(a, k) == IF k = 0 THEN <<>> ELSE BMulSmallFrom(a, k, 1, 0)

RECURSIVE BMulFrom(_, _, _)
BMulFrom(a, b, j) ==
    IF j > Len(b) THEN <<>>
    ELSE BAdd(IF b[j] = 0 THEN <<>> ELSE Zeros(j - 1) \o BMulSmall(a, b[j]),
              BMulFrom(a, b, j + 1))

BMul(a, b) == BMulFrom(a, b, 1)

\* a * 2^s.
BShl(a, s) ==
    IF a = <<>> THEN <<>>
    ELSE LET r  == s % LimbBits
             lo == 2 ^ (LimbBits - r)
             hi == 2 ^ r
         IN  Zeros(s \div LimbBits)
             \o BTrim([i \in 1..(Len(a) + 1) |->
                          (Limb(a, i) % lo) * hi + Limb(a, i - 1) \div lo])

\* a div 2^s.
BShr(a, s) ==
    LET k  == s \div LimbBits
        r  == s % LimbBits
        lo == 2 ^ r
        hi == 2 ^ (LimbBits - r)
    IN  IF k >= Len(a) THEN <<>>
        ELSE BTrim([i \in 1..(Len(a) - k) |->
                       a[i + k] \div lo + (Limb(a, i + k + 1) % lo) * hi])

\* a mod 2^s is not 0.
BLowBits(a, s) ==
    LET k == s \div LimbBits
        r == s % LimbBits
    IN  \/ \E i \in 1..Min(k, Len(a)) : a[i] # 0
        \/ Limb(a, k + 1) % (2 ^ r) # 0

\* Bit i of a, the lowest being bit 0.
BBit(a, i) == (Limb(a, i \div LimbBits + 1) \div (2 ^ (i % LimbBits))) % 2

RECURSIVE TrailingZeros(_)
TrailingZeros(x) == IF x % 2 = 1 THEN 0 ELSE 1 + TrailingZeros(x \div 2)

RECURSIVE BTrailingFrom(_, _)
BTrailingFrom(a, i) ==
    IF a[i] = 0 THEN LimbBits + BTrailingFrom(a, i + 1) ELSE TrailingZeros(a[i])

\* The number of zero bits a ends in, for a # 0.
BTrailing(a) == BTrailingFrom(a, 1)

\* Long division, one limb of the quotient: <<q, r - q * b>> for the largest
\* q with q * b <= r, where r < b * Base and b's top limb is at least
\* Base / 2, so that the estimate from the top limbs is at most 2 too large.
RECURSIVE Lower(_, _, _, _)
Lower(r, b, q, p) ==
    IF BCmp(p, r) = 1 THEN Lower(r, b, q - 1, BSub(p, b)) ELSE <<q, BSub(r, p)>>

QuotientLimb(r, b) ==
    LET n   == Len(b)
        top == Limb(r, n + 1) * Base + Limb(r, n)
        q   == Min(Base - 1, top \div b[n])
    IN  IF Len(r) < n THEN <<0, r>> ELSE Lower(r, b, q, BMulSmall(b, q))

RECURSIVE BDivFrom(_, _, _, _, _)

\* Long division after limb i of a gave step = <<quotient limb, remainder>>.
BDivStep(a, b, i, step, q) == BDivFrom(a, b, i - 1, step[2], <<step[1]>> \o q)

\* Long division of a by b from limb i of a down, r the remainder and q the
\* quotient of the limbs above it: <<quotient, remainder>>.
BDivFrom(a, b, i, r, q) ==
    IF i = 0 THEN <<BTrim(q), r>>
    ELSE BDivStep(a, b, i, QuotientLimb(BTrim(<<a[i]>> \o r), b), q)

\* <<a div b, a mod b>>, for b whose top limb is at least Base / 2.
BDivNormal(a, b) == BDivFrom(a, b, Len(a), <<>>, <<>>)

\* <<the quotient, whether the remainder is not 0>> of d.
BInexact(d) == <<d[1], d[2] # <<>>>>

\* The number of bits by which b's top limb falls short of LimbBits.
BSlack(b) == LimbBits - BitLength(b[Len(b)])

\* <<a div b, whether a mod b is not 0>>, for b # 0.
BDivMod(a, b) == BInexact(BDivNormal(BShl(a, BSlack(b)), BShl(b, BSlack(b))))

RECURSIVE ISqrtNewton(_, _)
ISqrtNewton(n, x) ==
    LET y == (x + n \div x) \div 2
    IN  IF y >= x THEN x ELSE ISqrtNewton(n, y)

\* The largest r with r * r <= n, for 0 <= n < Base * Base.
ISqrt(n) == IF n = 0 THEN 0 ELSE ISqrtNewton(n, Base)

RECURSIVE BSqrtNewton(_, _)

\* Newton's iteration for the root of n at x, y being the next iterate: it
\* ends when the iterates stop falling.
BSqrtNext(n, x, y) == IF BCmp(y, x) >= 0 THEN x ELSE BSqrtNewton(n, y)

\* Newton's iteration for the root of n, from x above the root.
BSqrtNewton(n, x) == BSqrtNext(n, x, BShr(BAdd(x, BDivMod(n, x)[1]), 1))

\* A start above the root of n: the root of n's bits from 2 * k on, plus 1,
\* moved up by k bits.
BSqrtStart(n, k) == BShl(BFromInt(ISqrt(BToInt(BShr(n, 2 * k))) + 1), k)

\* The largest r with r * r <= n: Newton's iteration from a start above the
\* root, taken from the top bits of n.
BSqrt(n) ==
    IF BLen(n) <= 2 * LimbBits THEN BFromInt(ISqrt(BToInt(n)))
    ELSE BSqrtNewton(n, BSqrtStart(n, (BLen(n) - 2 * LimbBits + 1) \div 2))

----------------------------------------------------------------------------
(* Python numbers: ints and floats.                                        *)

\* The number of mantissa bits of a double.
Precision == 53

\* The number sign * man * 2^exp, an int or a float.
Number(int, sign, man, exp) ==
    IF man = <<>> THEN [sign |-> 0, man |-> <<>>, exp |-> 0, int |-> int]
    ELSE [sign |-> sign, man |-> BShr(man, BTrailing(man)),
          exp |-> exp + BTrailing(man), int |-> int]

\* The int n.
IntOf(n) == Number(TRUE, IF n < 0 THEN -1 ELSE 1, BFromInt(Abs(n)), 0)

\* 0.0.
Zero == [sign |-> 0, man |-> <<>>, exp |-> 0, int |-> FALSE]

\* The double sign * man * 2^exp, for man below 2^Precision.
Float(sign, man, exp) == Number(FALSE, sign, man, exp)

\* Whether dropping the low s bits of man + f rounds up: the bits dropped
\* are more than half a unit of bit s, or they are half and bit s is odd.
RoundsUp(man, s, sticky) ==
    /\ BBit(man, s - 1) = 1
    /\ sticky \/ BLowBits(man, s - 1) \/ BBit(man, s) = 1

\* Round, for man of Precision + s bits.
RoundOff(sign, man, exp, sticky, s) ==
    IF s <= 0 THEN Float(sign, man, exp)
    ELSE Float(sign,
               BAdd(BShr(man, s),
                    IF RoundsUp(man, s, sticky) THEN <<1>> ELSE <<>>),
               exp + s)

\* The double nearest to sign * (man + f) * 2^exp, a tie going to the even
\* mantissa, where 0 < f < 1 if sticky and f = 0 if not; with sticky, man has
\* more than Precision bits.
Round(sign, man, exp, sticky) ==
    RoundOff(sign, man, exp, sticky, BLen(man) - Precision)

\* float(n) of a TLA+ integer n, which has fewer than Precision bits.
FromInt(n) == Float(IF n < 0 THEN -1 ELSE 1, BFromInt(Abs(n)), 0)

\* float(a): an int becomes the nearest double, a tie going to the even
\* mantissa.
ToFloat(a) == IF a.int THEN Round(a.sign, a.man, a.exp, FALSE) ELSE a

\* a as an operand of an arithmetic operation with b: the operation is on
\* ints when both are ints, and on floats otherwise.
Operand(a, b) == IF a.int /\ b.int THEN a ELSE ToFloat(a)

\* The result sign * man * 2^exp of an operation: the int itself, or the
\* nearest double.
Result(exact, sign, man, exp) ==
    IF exact THEN Number(TRUE, sign, man, exp)
    ELSE Round(sign, man, exp, FALSE)

\* sa * na * 2^e + sb * nb * 2^e: the sum of the mantissas under equal
\* signs, and else their difference under the sign of the larger.
AddAligned(exact, sa, na, sb, nb, e) ==
    Result(exact,
           IF sa = sb \/ BCmp(na, nb) >= 0 THEN sa ELSE sb,
           IF sa = sb THEN BAdd(na, nb)
           ELSE IF BCmp(na, nb) >= 0 THEN BSub(na, nb)
           ELSE BSub(nb, na),
           e)

\* a + b, for a and b not 0: the mantissas brought to the exponent e.
AddAt(exact, a, b, e) ==
    AddAligned(exact, a.sign, BShl(a.man, a.exp - e),
               b.sign, BShl(b.man, b.exp - e), e)

\* a + b of two ints, exact, or of two floats.
Plus(exact, a, b) ==
    IF a.sign = 0 THEN b
    ELSE IF b.sign = 0 THEN a
    ELSE AddAt(exact, a, b, Min(a.exp, b.exp))

\* a + b.
Add(a, b) == Plus(a.int /\ b.int, Operand(a, b), Operand(b, a))

\* -a.
Neg(a) == [a EXCEPT !.sign = -a.sign]

\* a - b.
Sub(a, b) == Add(a, Neg(b))

\* a * b of two ints, exact, or of two floats.
Times(exact, a, b) ==
    IF a.sign = 0 \/ b.sign = 0 THEN Number(exact, 0, <<>>, 0)
    ELSE Result(exact, a.sign * b.sign, BMul(a.man, b.man), a.exp + b.exp)

\* a * b.
Mul(a, b) == Times(a.int /\ b.int, Operand(a, b), Operand(b, a))

\* The fused multiply-add of the processor: a * b + c of three doubles,
\* rounded once.
Fma(a, b, c) == ToFloat(Plus(TRUE, Times(TRUE, a, b), c))

\* sign * (d[1] + f) * 2^exp rounded, f not 0 exactly if d[2].
DivRound(sign, d, exp) == Round(sign, d[1], exp, d[2])

\* a / b, from a's mantissa with k more bits.
DivAt(a, b, k) ==
    DivRound(a.sign * b.sign, BDivMod(BShl(a.man, k), b.man), a.exp - b.exp - k)

\* The double nearest to a / b, for b # 0: the quotient of the mantissas to
\* Precision + 2 bits and more, rounded.
Quotient(a, b) ==
    IF a.sign = 0 THEN Zero
    ELSE DivAt(a, b, Max(0, Precision + 2 + BLen(b.man) - BLen(a.man)))

\* a / b: the double nearest to the quotient of two ints, and else the
\* quotient of two floats.
Div(a, b) == Quotient(Operand(a, b), Operand(b, a))

\* a is the square of a double of at most LimbBits bits.
SqrtIsSmall(a) ==
    /\ Len(a.man) <= 2
    /\ a.exp % 2 = 0
    /\ ISqrt(BToInt(a.man)) * ISqrt(BToInt(a.man)) = BToInt(a.man)

\* (r + f) * 2^exp rounded, r the whole root of n and f not 0 exactly if
\* r * r is not n.
SqrtRound(n, r, exp) == Round(1, r, exp, BMul(r, r) # n)

\* The root of a, from a's mantissa with k more bits, a.exp - k even.
SqrtAt(a, k) == SqrtRound(BShl(a.man, k), BSqrt(BShl(a.man, k)), (a.exp - k) \div 2)

\* At least k0 more bits, leaving an even exponent.
SqrtShift(a, k0) == IF (a.exp - k0) % 2 = 0 THEN k0 ELSE k0 + 1

\* The double nearest to the root of the double a >= 0: the root of the
\* mantissa itself when a is the square of a double of at most LimbBits
\* bits, and else the root of the mantissa scaled to twice Precision bits
\* and more, rounded.
SqrtOf(a) ==
    IF a.sign = 0 THEN Zero
    ELSE IF SqrtIsSmall(a)
    THEN Float(1, BFromInt(ISqrt(BToInt(a.man))), a.exp \div 2)
    ELSE SqrtAt(a, SqrtShift(a, Max(0, 2 * Precision + 4 - BLen(a.man))))

\* math.sqrt(a), for a >= 0.
Sqrt(a) == SqrtOf(ToFloat(a))

\* a < b: ints and floats are compared by their exact values.
Less(a, b) ==
    IF a.sign # b.sign THEN a.sign < b.sign
    ELSE IF a.sign = 0 THEN FALSE
    ELSE LET e == Min(a.exp, b.exp)
             c == BCmp(BShl(a.man, a.exp - e), BShl(b.man, b.exp - e))
         IN  IF a.sign = 1 THEN c = -1 ELSE c = 1

\* a == b: ints and floats are compared by their exact values.
Equal(a, b) == a.sign = b.sign /\ a.man = b.man /\ a.exp = b.exp

\* The integral part of a, as math.modf splits it off.
IntPart(a) ==
    IF a.exp >= 0 THEN a.sign * BToInt(BShl(a.man, a.exp))
    ELSE a.sign * BToInt(BShr(a.man, -a.exp))

\* The fractional part of a, as math.modf splits it off.
FracPart(a) ==
    IF a.exp >= 0 THEN Zero
    ELSE Float(a.sign, BSub(a.man, BShl(BShr(a.man, -a.exp), -a.exp)), a.exp)

\* The integer nearest to a, a tie going to the even one.
RoundHalfEven(a) ==
    IF a.exp >= 0 THEN IntPart(a)
    ELSE LET q    == BToInt(BShr(a.man, -a.exp))
             half == BBit(a.man, -a.exp - 1) = 1
             rest == BLowBits(a.man, -a.exp - 1)
             up   == half /\ (rest \/ q % 2 = 1)
         IN  a.sign * (IF up THEN q + 1 ELSE q)

MicrosecondsPerSecond == 1000000

\* timedelta(seconds=a), in microseconds: the whole seconds of a, and its
\* fractional part multiplied by 10^6 as a double and then rounded.
Microseconds(a) ==
    IntPart(a) * MicrosecondsPerSecond
    + RoundHalfEven(Mul(IntOf(MicrosecondsPerSecond), FracPart(a)))

\* timedelta.total_seconds() of a timedelta of n microseconds: n / 10 ** 6,
\* a quotient of ints.
TotalSeconds(n) == Div(IntOf(n), IntOf(MicrosecondsPerSecond))

----------------------------------------------------------------------------
(* float ** 2.  CPython passes it to the C library's pow(x, 2.0), which    *)
(* computes exp(2 * log(x)) with the fused multiply-add of the processor,  *)
(* the logarithm and the exponential each from a table of 128 intervals    *)
(* and a polynomial.  The result is within 0.52 units in the last place of *)
(* the square, so it is the double nearest to the square except for some   *)
(* squares that lie almost halfway between two doubles.                    *)

\* A double of the tables below, written <<sign, man, exp>>.
Double(t) == [sign |-> t[1], man |-> t[2], exp |-> t[3], int |-> FALSE]

\* The constants of pow: ln 2 in two parts, the coefficients A of the
\* logarithm's polynomial, 128 / ln 2, the shift 1.5 * 2^52 that rounds to
\* an integer, -ln 2 / 128 in two parts, and the coefficients C of the
\* exponential's polynomial.
PowConstants ==
    [Ln2hi |-> <<1, <<24391, 4287, 2839>>, -42>>,
     Ln2lo |-> <<1, <<30323, 29304, 15573, 15>>, -93>>,
     A0 |-> <<-1, <<1>>, -1>>,
     A1 |-> <<-1, <<10923, 21845, 10922, 5>>, -48>>,
     A2 |-> <<1, <<3, 0, 0, 64>>, -52>>,
     A3 |-> <<1, <<10919, 6489, 13107, 102>>, -52>>,
     A4 |-> <<-1, <<21053, 21801, 10922, 85>>, -52>>,
     A5 |-> <<-1, <<17897, 13968, 9582, 146>>, -52>>,
     A6 |-> <<1, <<16323, 5708, 174, 128>>, -52>>,
     InvLn2N |-> <<1, <<16767, 25899, 10894, 92>>, -44>>,
     Shift |-> <<1, <<3>>, 51>>,
     NegLn2hiN |-> <<-1, <<32637, 11842, 44>>, -43>>,
     NegLn2loN |-> <<-1, <<7581, 15518, 28469, 115>>, -98>>,
     C2 |-> <<1, <<32189, 32767, 32767, 255>>, -54>>,
     C3 |-> <<1, <<21775, 10922, 21845, 42>>, -53>>,
     C4 |-> <<1, <<11153, 7726, 21847, 170>>, -57>>,
     C5 |-> <<1, <<20503, 20297, 17477, 136>>, -59>>,
     one |-> <<1, <<1>>, 0>>,
     two |-> <<1, <<1>>, 1>>,
     zero |-> <<0, <<>>, 0>>]

\* The logarithm's table: for interval i, 1/c, log(c) and the tail of
\* log(c), c near the centre of the interval.
PowLogTable ==
    <<<<<<1, <<181>>, -7>>,
        <<-1, <<22329, 8380, 2838>>, -43>>,
        <<1, <<28333, 4256, 21921, 1>>, -93>>>>,
      <<<<1, <<45>>, -5>>,
        <<-1, <<27393, 28527, 2792>>, -43>>,
        <<-1, <<1977, 3470, 5281, 7>>, -93>>>>,
      <<<<1, <<179>>, -7>>,
        <<-1, <<26795, 7621, 2747>>, -43>>,
        <<-1, <<20589, 11116, 2707, 155>>, -97>>>>,
      <<<<1, <<89>>, -6>>,
        <<-1, <<26047, 11105, 2701>>, -43>>,
        <<-1, <<26581, 15712, 5010, 180>>, -101>>>>,
      <<<<1, <<177>>, -7>>,
        <<-1, <<12015, 6117, 2655>>, -43>>,
        <<-1, <<18935, 6450, 877, 5>>, -94>>>>,
      <<<<1, <<11>>, -3>>,
        <<-1, <<4323, 6332, 652>>, -41>>,
        <<1, <<8499, 9254, 22575, 39>>, -96>>>>,
      <<<<1, <<175>>, -7>>,
        <<-1, <<20693, 3105, 2562>>, -43>>,
        <<1, <<1437, 28034, 1511, 113>>, -101>>>>,
      <<<<1, <<87>>, -6>>,
        <<-1, <<11561, 4885, 2515>>, -43>>,
        <<1, <<3235, 26725, 5688, 4>>, -92>>>>,
      <<<<1, <<173>>, -7>>,
        <<-1, <<13617, 8054, 154>>, -39>>,
        <<1, <<16457, 21701, 12955, 85>>, -96>>>>,
      <<<<1, <<43>>, -5>>,
        <<-1, <<22281, 3627, 605>>, -41>>,
        <<1, <<25979, 9837, 15759, 22>>, -94>>>>,
      <<<<1, <<171>>, -7>>,
        <<-1, <<31697, 22148, 2372>>, -43>>,
        <<1, <<12351, 28063, 10322, 174>>, -98>>>>,
      <<<<1, <<171>>, -7>>,
        <<-1, <<31697, 22148, 2372>>, -43>>,
        <<1, <<12351, 28063, 10322, 174>>, -98>>>>,
      <<<<1, <<85>>, -6>>,
        <<-1, <<31215, 20606, 2324>>, -43>>,
        <<-1, <<27963, 10323, 13384, 89>>, -97>>>>,
      <<<<1, <<169>>, -7>>,
        <<-1, <<11571, 9776, 2276>>, -43>>,
        <<-1, <<21761, 13427, 12220, 63>>, -96>>>>,
      <<<<1, <<21>>, -4>>,
        <<-1, <<30069, 22314, 2227>>, -43>>,
        <<1, <<10895, 18032, 18417, 15>>, -94>>>>,
      <<<<1, <<167>>, -7>>,
        <<-1, <<13769, 25342, 2178>>, -43>>,
        <<-1, <<11571, 32005, 20873, 90>>, -96>>>>,
      <<<<1, <<83>>, -6>>,
        <<-1, <<10041, 25756, 1064>>, -42>>,
        <<-1, <<391, 32500, 22492, 113>>, -98>>>>,
      <<<<1, <<165>>, -7>>,
        <<-1, <<19277, 1202, 1040>>, -42>>,
        <<-1, <<11647, 15848, 23266, 129>>, -100>>>>,
      <<<<1, <<165>>, -7>>,
        <<-1, <<19277, 1202, 1040>>, -42>>,
        <<-1, <<11647, 15848, 23266, 129>>, -100>>>>,
      <<<<1, <<41>>, -5>>,
        <<-1, <<13689, 18627, 507>>, -41>>,
        <<1, <<15495, 22322, 23722, 234>>, -99>>>>,
      <<<<1, <<163>>, -7>>,
        <<-1, <<24291, 2780, 990>>, -42>>,
        <<1, <<11209, 20035, 9911, 54>>, -95>>>>,
      <<<<1, <<81>>, -6>>,
        <<-1, <<25263, 24813, 1929>>, -43>>,
        <<-1, <<32753, 27271, 19411, 11>>, -94>>>>,
      <<<<1, <<161>>, -7>>,
        <<-1, <<11583, 24843, 469>>, -41>>,
        <<1, <<26651, 30612, 27206, 141>>, -97>>>>,
      <<<<1, <<5>>, -2>>,
        <<-1, <<15573, 32636, 913>>, -42>>,
        <<1, <<24845, 13391, 31055, 46>>, -95>>>>,
      <<<<1, <<5>>, -2>>,
        <<-1, <<15573, 32636, 913>>, -42>>,
        <<1, <<24845, 13391, 31055, 46>>, -95>>>>,
      <<<<1, <<159>>, -7>>,
        <<-1, <<17113, 20686, 1776>>, -43>>,
        <<1, <<14223, 25367, 15040, 202>>, -98>>>>,
      <<<<1, <<79>>, -6>>,
        <<-1, <<14851, 7754, 431>>, -41>>,
        <<1, <<18483, 16333, 7366, 105>>, -103>>>>,
      <<<<1, <<157>>, -7>>,
        <<-1, <<32299, 30595, 1672>>, -43>>,
        <<-1, <<24821, 23622, 6345, 86>>, -96>>>>,
      <<<<1, <<157>>, -7>>,
        <<-1, <<32299, 30595, 1672>>, -43>>,
        <<-1, <<24821, 23622, 6345, 86>>, -96>>>>,
      <<<<1, <<39>>, -5>>,
        <<-1, <<20293, 19283, 1620>>, -43>>,
        <<-1, <<21731, 2435, 18276, 214>>, -97>>>>,
      <<<<1, <<155>>, -7>>,
        <<-1, <<21005, 29708, 1567>>, -43>>,
        <<1, <<31241, 32695, 30461, 221>>, -97>>>>,
      <<<<1, <<77>>, -6>>,
        <<-1, <<4231, 14480, 757>>, -42>>,
        <<1, <<26955, 7316, 28104, 27>>, -94>>>>,
      <<<<1, <<77>>, -6>>,
        <<-1, <<4231, 14480, 757>>, -42>>,
        <<1, <<26955, 7316, 28104, 27>>, -94>>>>,
      <<<<1, <<153>>, -7>>,
        <<-1, <<29085, 16892, 1461>>, -43>>,
        <<-1, <<28979, 9138, 18645, 67>>, -97>>>>,
      <<<<1, <<19>>, -4>>,
        <<-1, <<2681, 26126, 1407>>, -43>>,
        <<-1, <<20537, 15904, 30990, 244>>, -98>>>>,
      <<<<1, <<19>>, -4>>,
        <<-1, <<2681, 26126, 1407>>, -43>>,
        <<-1, <<20537, 15904, 30990, 244>>, -98>>>>,
      <<<<1, <<151>>, -7>>,
        <<-1, <<14875, 23740, 1353>>, -43>>,
        <<-1, <<23439, 8206, 31278, 134>>, -97>>>>,
      <<<<1, <<75>>, -6>>,
        <<-1, <<22935, 13485, 162>>, -40>>,
        <<1, <<24079, 12442, 3265, 46>>, -96>>>>,
      <<<<1, <<75>>, -6>>,
        <<-1, <<22935, 13485, 162>>, -40>>,
        <<1, <<24079, 12442, 3265, 46>>, -96>>>>,
      <<<<1, <<149>>, -7>>,
        <<-1, <<489, 16260, 1244>>, -43>>,
        <<1, <<10781, 19751, 28940, 69>>, -99>>>>,
      <<<<1, <<37>>, -5>>,
        <<-1, <<511, 10847, 1189>>, -43>>,
        <<-1, <<14465, 1500, 18072, 20>>, -94>>>>,
      <<<<1, <<147>>, -7>>,
        <<-1, <<10619, 29357, 566>>, -42>>,
        <<-1, <<20939, 6161, 328, 122>>, -96>>>>,
      <<<<1, <<147>>, -7>>,
        <<-1, <<10619, 29357, 566>>, -42>>,
        <<-1, <<20939, 6161, 328, 122>>, -96>>>>,
      <<<<1, <<73>>, -6>>,
        <<-1, <<19721, 28623, 1077>>, -43>>,
        <<1, <<5885, 17524, 27030, 52>>, -97>>>>,
      <<<<1, <<73>>, -6>>,
        <<-1, <<19721, 28623, 1077>>, -43>>,
        <<1, <<5885, 17524, 27030, 52>>, -97>>>>,
      <<<<1, <<145>>, -7>>,
        <<-1, <<3807, 18707, 1021>>, -43>>,
        <<-1, <<6649, 23715, 27304, 85>>, -96>>>>,
      <<<<1, <<9>>, -3>>,
        <<-1, <<28203, 19982, 120>>, -40>>,
        <<1, <<15, 5496, 13356, 52>>, -95>>>>,
      <<<<1, <<9>>, -3>>,
        <<-1, <<28203, 19982, 120>>, -40>>,
        <<1, <<15, 5496, 13356, 52>>, -95>>>>,
      <<<<1, <<143>>, -7>>,
        <<-1, <<15727, 29348, 453>>, -42>>,
        <<-1, <<24323, 22623, 6318, 116>>, -97>>>>,
      <<<<1, <<71>>, -6>>,
        <<-1, <<21079, 9939, 850>>, -43>>,
        <<1, <<30041, 31254, 7322, 21>>, -94>>>>,
      <<<<1, <<71>>, -6>>,
        <<-1, <<21079, 9939, 850>>, -43>>,
        <<1, <<30041, 31254, 7322, 21>>, -94>>>>,
      <<<<1, <<141>>, -7>>,
        <<-1, <<12685, 13405, 792>>, -43>>,
        <<1, <<27341, 21323, 15892, 19>>, -95>>>>,
      <<<<1, <<141>>, -7>>,
        <<-1, <<12685, 13405, 792>>, -43>>,
        <<1, <<27341, 21323, 15892, 19>>, -95>>>>,
      <<<<1, <<35>>, -5>>,
        <<-1, <<22315, 3368, 734>>, -43>>,
        <<-1, <<14829, 18739, 11887, 90>>, -96>>>>,
      <<<<1, <<139>>, -7>>,
        <<-1, <<30769, 12403, 675>>, -43>>,
        <<1, <<24151, 17292, 2413, 248>>, -98>>>>,
      <<<<1, <<139>>, -7>>,
        <<-1, <<30769, 12403, 675>>, -43>>,
        <<1, <<24151, 17292, 2413, 248>>, -98>>>>,
      <<<<1, <<69>>, -6>>,
        <<-1, <<12511, 7545, 616>>, -43>>,
        <<1, <<5087, 6642, 31595, 226>>, -97>>>>,
      <<<<1, <<69>>, -6>>,
        <<-1, <<12511, 7545, 616>>, -43>>,
        <<1, <<5087, 6642, 31595, 226>>, -97>>>>,
      <<<<1, <<137>>, -7>>,
        <<-1, <<23879, 5339, 139>>, -41>>,
        <<1, <<8969, 27935, 29049, 163>>, -98>>>>,
      <<<<1, <<17>>, -4>>,
        <<-1, <<35, 10435, 248>>, -42>>,
        <<1, <<3729, 1645, 26234, 234>>, -97>>>>,
      <<<<1, <<17>>, -4>>,
        <<-1, <<35, 10435, 248>>, -42>>,
        <<1, <<3729, 1645, 26234, 234>>, -97>>>>,
      <<<<1, <<135>>, -7>>,
        <<-1, <<25139, 2933, 218>>, -42>>,
        <<1, <<7187, 29419, 634, 57>>, -96>>>>,
      <<<<1, <<135>>, -7>>,
        <<-1, <<25139, 2933, 218>>, -42>>,
        <<1, <<7187, 29419, 634, 57>>, -96>>>>,
      <<<<1, <<67>>, -6>>,
        <<-1, <<22731, 8903, 375>>, -43>>,
        <<-1, <<20727, 13554, 30860, 115>>, -96>>>>,
      <<<<1, <<67>>, -6>>,
        <<-1, <<22731, 8903, 375>>, -43>>,
        <<-1, <<20727, 13554, 30860, 115>>, -96>>>>,
      <<<<1, <<133>>, -7>>,
        <<-1, <<26619, 29757, 313>>, -43>>,
        <<1, <<32597, 29990, 1391, 84>>, -99>>>>,
      <<<<1, <<133>>, -7>>,
        <<-1, <<26619, 29757, 313>>, -43>>,
        <<1, <<32597, 29990, 1391, 84>>, -99>>>>,
      <<<<1, <<33>>, -5>>,
        <<-1, <<25039, 24742, 15>>, -39>>,
        <<-1, <<633, 15935, 38, 51>>, -95>>>>,
      <<<<1, <<33>>, -5>>,
        <<-1, <<25039, 24742, 15>>, -39>>,
        <<-1, <<633, 15935, 38, 51>>, -95>>>>,
      <<<<1, <<131>>, -7>>,
        <<-1, <<4011, 25708, 189>>, -43>>,
        <<-1, <<9785, 10229, 13650, 196>>, -97>>>>,
      <<<<1, <<65>>, -6>>,
        <<-1, <<11327, 24660, 31>>, -41>>,
        <<-1, <<27047, 31593, 7804, 62>>, -100>>>>,
      <<<<1, <<65>>, -6>>,
        <<-1, <<11327, 24660, 31>>, -41>>,
        <<-1, <<27047, 31593, 7804, 62>>, -100>>>>,
      <<<<1, <<129>>, -7>>,
        <<-1, <<9905, 31749, 7>>, -40>>,
        <<-1, <<4153, 1773, 25151, 51>>, -96>>>>,
      <<<<1, <<129>>, -7>>,
        <<-1, <<9905, 31749, 7>>, -40>>,
        <<-1, <<4153, 1773, 25151, 51>>, -96>>>>,
      <<<<1, <<1>>, 0>>,
        <<0, <<>>, 0>>,
        <<0, <<>>, 0>>>>,
      <<<<1, <<1>>, 0>>,
        <<0, <<>>, 0>>,
        <<0, <<>>, 0>>>>,
      <<<<1, <<127>>, -7>>,
        <<1, <<30089, 8234, 64>>, -43>>,
        <<-1, <<9597, 26215, 25525, 16>>, -95>>>>,
      <<<<1, <<63>>, -6>>,
        <<1, <<12583, 345, 129>>, -43>>,
        <<-1, <<31721, 1762, 14518, 79>>, -96>>>>,
      <<<<1, <<125>>, -7>>,
        <<1, <<10441, 4682, 97>>, -42>>,
        <<-1, <<781, 6445, 8378, 53>>, -95>>>>,
      <<<<1, <<31>>, -5>>,
        <<1, <<10141, 2796, 260>>, -43>>,
        <<1, <<22355, 14819, 18177, 136>>, -99>>>>,
      <<<<1, <<123>>, -7>>,
        <<1, <<27159, 26286, 40>>, -40>>,
        <<-1, <<16293, 23919, 2873, 28>>, -94>>>>,
      <<<<1, <<61>>, -6>>,
        <<1, <<21119, 9552, 393>>, -43>>,
        <<-1, <<9853, 8372, 26199, 203>>, -98>>>>,
      <<<<1, <<121>>, -7>>,
        <<1, <<14199, 23454, 460>>, -43>>,
        <<-1, <<10247, 4016, 9161, 211>>, -98>>>>,
      <<<<1, <<241>>, -8>>,
        <<1, <<27, 20878, 494>>, -43>>,
        <<-1, <<15227, 8082, 17657, 240>>, -99>>>>,
      <<<<1, <<239>>, -8>>,
        <<1, <<2611, 29629, 562>>, -43>>,
        <<-1, <<7835, 11291, 18805, 169>>, -97>>>>,
      <<<<1, <<237>>, -8>>,
        <<1, <<16015, 24410, 631>>, -43>>,
        <<1, <<20183, 19382, 8570, 230>>, -97>>>>,
      <<<<1, <<235>>, -8>>,
        <<1, <<27837, 5540, 701>>, -43>>,
        <<-1, <<3727, 15453, 21004, 113>>, -96>>>>,
      <<<<1, <<117>>, -7>>,
        <<1, <<11179, 1688, 368>>, -42>>,
        <<1, <<30361, 10653, 15643, 112>>, -100>>>>,
      <<<<1, <<29>>, -5>>,
        <<1, <<30053, 6898, 403>>, -42>>,
        <<1, <<9197, 15037, 8888, 76>>, -96>>>>,
      <<<<1, <<115>>, -7>>,
        <<1, <<28011, 11400, 877>>, -43>>,
        <<-1, <<26853, 22510, 16896, 156>>, -98>>>>,
      <<<<1, <<229>>, -8>>,
        <<1, <<1777, 17088, 456>>, -42>>,
        <<1, <<11475, 3253, 6983, 178>>, -97>>>>,
      <<<<1, <<227>>, -8>>,
        <<1, <<6225, 29592, 984>>, -43>>,
        <<-1, <<12847, 2814, 14349, 7>>, -92>>>>,
      <<<<1, <<113>>, -7>>,
        <<1, <<20191, 2323, 1021>>, -43>>,
        <<-1, <<2813, 8002, 21337, 169>>, -97>>>>,
      <<<<1, <<7>>, -3>>,
        <<1, <<4415, 30952, 546>>, -42>>,
        <<1, <<1017, 20013, 24305, 71>>, -96>>>>,
      <<<<1, <<223>>, -8>>,
        <<1, <<25151, 17775, 1130>>, -43>>,
        <<1, <<9805, 8732, 10126, 57>>, -95>>>>,
      <<<<1, <<221>>, -8>>,
        <<1, <<6413, 17796, 150>>, -40>>,
        <<1, <<13473, 5891, 30131, 156>>, -99>>>>,
      <<<<1, <<55>>, -6>>,
        <<1, <<345, 16278, 1241>>, -43>>,
        <<1, <<29321, 18070, 16032, 177>>, -103>>>>,
      <<<<1, <<109>>, -7>>,
        <<1, <<13115, 10160, 1316>>, -43>>,
        <<1, <<14031, 21823, 16828, 21>>, -94>>>>,
      <<<<1, <<217>>, -8>>,
        <<1, <<18971, 31932, 1353>>, -43>>,
        <<1, <<32199, 19154, 20387, 177>>, -97>>>>,
      <<<<1, <<215>>, -8>>,
        <<1, <<26817, 27095, 1429>>, -43>>,
        <<1, <<1487, 19215, 26565, 25>>, -95>>>>,
      <<<<1, <<107>>, -7>>,
        <<1, <<14167, 593, 1468>>, -43>>,
        <<-1, <<8673, 19256, 17975, 168>>, -97>>>>,
      <<<<1, <<213>>, -8>>,
        <<1, <<21573, 12720, 1506>>, -43>>,
        <<-1, <<17157, 24866, 6209, 227>>, -98>>>>,
      <<<<1, <<211>>, -8>>,
        <<1, <<27449, 32095, 98>>, -39>>,
        <<-1, <<11473, 21970, 30034, 185>>, -99>>>>,
      <<<<1, <<105>>, -7>>,
        <<1, <<23799, 13493, 101>>, -39>>,
        <<1, <<32623, 12609, 18593, 191>>, -99>>>>,
      <<<<1, <<13>>, -4>>,
        <<1, <<25687, 16083, 850>>, -42>>,
        <<-1, <<8553, 8364, 18701, 195>>, -97>>>>,
      <<<<1, <<207>>, -8>>,
        <<1, <<30141, 15114, 1740>>, -43>>,
        <<-1, <<28885, 20140, 27418, 112>>, -98>>>>,
      <<<<1, <<103>>, -7>>,
        <<1, <<16863, 2163, 890>>, -42>>,
        <<-1, <<2395, 22868, 6024, 117>>, -96>>>>,
      <<<<1, <<205>>, -8>>,
        <<1, <<28417, 32632, 1819>>, -43>>,
        <<-1, <<5609, 17814, 22757, 71>>, -99>>>>,
      <<<<1, <<203>>, -8>>,
        <<1, <<3401, 10166, 1900>>, -43>>,
        <<-1, <<12341, 28203, 31915, 215>>, -97>>>>,
      <<<<1, <<101>>, -7>>,
        <<1, <<32369, 25055, 1940>>, -43>>,
        <<1, <<8003, 27656, 1161, 9>>, -99>>>>,
      <<<<1, <<201>>, -8>>,
        <<1, <<25821, 27483, 123>>, -39>>,
        <<-1, <<3601, 19319, 1109, 209>>, -103>>>>,
      <<<<1, <<25>>, -5>>,
        <<1, <<19259, 9101, 2022>>, -43>>,
        <<1, <<19955, 6465, 29435, 13>>, -94>>>>,
      <<<<1, <<99>>, -7>>,
        <<1, <<2475, 19992, 2104>>, -43>>,
        <<1, <<20113, 11738, 29548, 196>>, -100>>>>,
      <<<<1, <<197>>, -8>>,
        <<1, <<15115, 17110, 536>>, -41>>,
        <<1, <<27369, 11385, 25132, 184>>, -97>>>>,
      <<<<1, <<49>>, -6>>,
        <<1, <<17661, 25504, 2187>>, -43>>,
        <<-1, <<31751, 12754, 8462, 56>>, -95>>>>,
      <<<<1, <<195>>, -8>>,
        <<1, <<30111, 22322, 2229>>, -43>>,
        <<1, <<5761, 28490, 27447, 220>>, -97>>>>,
      <<<<1, <<97>>, -7>>,
        <<1, <<27469, 26200, 2271>>, -43>>,
        <<1, <<15799, 8847, 7093, 229>>, -97>>>>,
      <<<<1, <<193>>, -8>>,
        <<1, <<8663, 4443, 2314>>, -43>>,
        <<1, <<23925, 14918, 4029, 106>>, -98>>>>,
      <<<<1, <<191>>, -8>>,
        <<1, <<19913, 24079, 1199>>, -42>>,
        <<1, <<317, 9512, 7418, 53>>, -95>>>>,
      <<<<1, <<95>>, -7>>,
        <<1, <<3739, 20254, 610>>, -41>>,
        <<-1, <<10135, 13512, 28989, 24>>, -94>>>>,
      <<<<1, <<189>>, -8>>,
        <<1, <<27617, 27886, 1242>>, -42>>,
        <<1, <<12025, 27708, 14182, 17>>, -95>>>>,
      <<<<1, <<47>>, -6>>,
        <<1, <<29491, 19022, 1264>>, -42>>,
        <<1, <<12119, 23299, 15188, 48>>, -96>>>>,
      <<<<1, <<187>>, -8>>,
        <<1, <<31421, 27912, 2572>>, -43>>,
        <<1, <<24733, 22817, 4315, 199>>, -99>>>>,
      <<<<1, <<93>>, -7>>,
        <<1, <<20025, 25456, 2616>>, -43>>,
        <<-1, <<22133, 4815, 7992, 249>>, -97>>>>,
      <<<<1, <<185>>, -8>>,
        <<1, <<24947, 15379, 1330>>, -42>>,
        <<-1, <<13865, 3461, 8329, 60>>, -95>>>>,
      <<<<1, <<23>>, -5>>,
        <<1, <<14789, 10976, 676>>, -41>>,
        <<1, <<18265, 713, 31170, 245>>, -97>>>>,
      <<<<1, <<183>>, -8>>,
        <<1, <<15501, 32490, 1374>>, -42>>,
        <<1, <<16623, 23738, 14263, 253>>, -98>>>>,
      <<<<1, <<91>>, -7>>,
        <<1, <<31435, 23517, 698>>, -41>>,
        <<-1, <<6519, 1106, 2858, 52>>, -97>>>>>>

\* The exponential's table: for j, the tail of 2^(j/128) and 2^(j/128).
PowExpTable ==
    <<<<<<0, <<>>, 0>>,
        <<1, <<1>>, 0>>>>,
      <<<<1, <<24503, 6792, 30366, 108>>, -105>>,
        <<1, <<13109, 21494, 22774, 128>>, -52>>>>,
      <<<<-1, <<23645, 14769, 78, 139>>, -108>>,
        <<1, <<97, 31983, 12904, 129>>, -52>>>>,
      <<<<-1, <<26321, 8462, 31208, 130>>, -106>>,
        <<1, <<32645, 20700, 3159, 130>>, -52>>>>,
      <<<<1, <<30227, 27343, 18760, 230>>, -107>>,
        <<1, <<24925, 27018, 22960, 32>>, -50>>>>,
      <<<<-1, <<18301, 9209, 7424, 111>>, -106>>,
        <<1, <<31599, 10717, 24790, 65>>, -51>>>>,
      <<<<1, <<18529, 17357, 23865, 135>>, -109>>,
        <<1, <<13177, 17949, 17314, 16>>, -49>>>>,
      <<<<1, <<21401, 13927, 3985, 133>>, -106>>,
        <<1, <<29571, 5517, 30971, 132>>, -52>>>>,
      <<<<1, <<31597, 15110, 27289, 188>>, -106>>,
        <<1, <<2319, 23027, 21857, 133>>, -52>>>>,
      <<<<1, <<31743, 18814, 13594, 61>>, -105>>,
        <<1, <<18423, 22244, 12872, 134>>, -52>>>>,
      <<<<1, <<7377, 24671, 30965, 245>>, -112>>,
        <<1, <<26833, 13011, 18392, 67>>, -51>>>>,
      <<<<-1, <<28171, 4896, 3282, 208>>, -109>>,
        <<1, <<21275, 24573, 28058, 135>>, -52>>>>,
      <<<<-1, <<24199, 10799, 11428, 85>>, -105>>,
        <<1, <<23377, 8228, 19463, 136>>, -52>>>>,
      <<<<-1, <<27221, 6301, 958, 132>>, -110>>,
        <<1, <<3187, 24630, 10941, 34>>, -50>>>>,
      <<<<-1, <<31243, 14805, 4679, 71>>, -105>>,
        <<1, <<18799, 10986, 10323, 4>>, -47>>>>,
      <<<<1, <<21935, 21176, 20367, 134>>, -107>>,
        <<1, <<3665, 4427, 27235, 138>>, -52>>>>,
      <<<<-1, <<12905, 31401, 3466, 16>>, -104>>,
        <<1, <<20859, 30970, 19168, 139>>, -52>>>>,
      <<<<-1, <<12861, 11196, 32705, 248>>, -107>>,
        <<1, <<18165, 14476, 5618, 70>>, -51>>>>,
      <<<<1, <<21439, 32294, 9776, 220>>, -107>>,
        <<1, <<19317, 22239, 3439, 141>>, -52>>>>,
      <<<<-1, <<30099, 30225, 13112, 91>>, -105>>,
        <<1, <<5941, 16898, 15328, 35>>, -50>>>>,
      <<<<1, <<20859, 29667, 23966, 6>>, -101>>,
        <<1, <<23765, 12648, 10510, 71>>, -51>>>>,
      <<<<-1, <<14493, 5900, 7691, 255>>, -107>>,
        <<1, <<22813, 17913, 13632, 143>>, -52>>>>,
      <<<<1, <<17293, 2381, 15621, 211>>, -107>>,
        <<1, <<18027, 2146, 3191, 72>>, -51>>>>,
      <<<<1, <<1149, 25032, 26646, 131>>, -107>>,
        <<1, <<28235, 4477, 16019, 72>>, -51>>>>,
      <<<<1, <<10789, 29140, 3837, 45>>, -104>>,
        <<1, <<11335, 7069, 7229, 18>>, -49>>>>,
      <<<<1, <<18557, 25832, 30819, 186>>, -107>>,
        <<1, <<9791, 8037, 18233, 146>>, -52>>>>,
      <<<<1, <<29689, 6175, 3671, 65>>, -106>>,
        <<1, <<31965, 19396, 11541, 147>>, -52>>>>,
      <<<<-1, <<1071, 16241, 28918, 90>>, -105>>,
        <<1, <<25473, 17386, 4991, 148>>, -52>>>>,
      <<<<1, <<11057, 23059, 24453, 151>>, -107>>,
        <<1, <<24289, 27199, 31351, 148>>, -52>>>>,
      <<<<-1, <<24573, 6767, 17206, 116>>, -111>>,
        <<1, <<11673, 31259, 11807, 9>>, -48>>>>,
      <<<<1, <<685, 14598, 14210, 54>>, -105>>,
        <<1, <<779, 19912, 18966, 150>>, -52>>>>,
      <<<<1, <<19343, 5021, 21066, 240>>, -109>>,
        <<1, <<6059, 10558, 22879, 75>>, -51>>>>,
      <<<<1, <<21979, 19888, 6890, 77>>, -106>>,
        <<1, <<14101, 5219, 7160, 152>>, -52>>>>,
      <<<<1, <<7443, 29014, 16897, 44>>, -105>>,
        <<1, <<22577, 30873, 1475, 153>>, -52>>>>,
      <<<<1, <<31781, 24019, 14962, 127>>, -106>>,
        <<1, <<5887, 25800, 28706, 153>>, -52>>>>,
      <<<<-1, <<5825, 7623, 9088, 45>>, -105>>,
        <<1, <<8177, 16165, 23317, 154>>, -52>>>>,
      <<<<-1, <<27149, 29458, 9590, 18>>, -103>>,
        <<1, <<10699, 28277, 18076, 155>>, -52>>>>,
      <<<<-1, <<5831, 6993, 4080, 100>>, -105>>,
        <<1, <<27699, 27909, 6492, 78>>, -51>>>>,
      <<<<-1, <<7017, 16020, 9168, 71>>, -107>>,
        <<1, <<8183, 27083, 8044, 157>>, -52>>>>,
      <<<<-1, <<6933, 26524, 25702, 200>>, -106>>,
        <<1, <<10469, 1575, 3255, 158>>, -52>>>>,
      <<<<1, <<19565, 20052, 32034, 172>>, -107>>,
        <<1, <<6673, 19474, 15692, 79>>, -51>>>>,
      <<<<-1, <<13509, 31272, 9408, 76>>, -105>>,
        <<1, <<8199, 598, 31301, 39>>, -50>>>>,
      <<<<-1, <<2395, 4143, 7741, 197>>, -110>>,
        <<1, <<5909, 8695, 11284, 80>>, -51>>>>,
      <<<<-1, <<6683, 20115, 12909, 225>>, -108>>,
        <<1, <<10391, 12961, 18391, 161>>, -52>>>>,
      <<<<1, <<11281, 16773, 4021, 155>>, -111>>,
        <<1, <<2349, 16579, 14369, 162>>, -52>>>>,
      <<<<1, <<25839, 30220, 6180, 179>>, -106>>,
        <<1, <<87, 23098, 10503, 163>>, -52>>>>,
      <<<<1, <<889, 13634, 13191, 246>>, -109>>,
        <<1, <<5069, 22200, 8616, 10>>, -48>>>>,
      <<<<1, <<28963, 18401, 32739, 9>>, -102>>,
        <<1, <<27119, 28887, 18005, 82>>, -51>>>>,
      <<<<1, <<11003, 22383, 9267, 11>>, -104>>,
        <<1, <<10791, 10860, 32619, 165>>, -52>>>>,
      <<<<1, <<24695, 22185, 30455, 152>>, -106>>,
        <<1, <<23821, 13307, 29386, 166>>, -52>>>>,
      <<<<-1, <<20935, 113, 10344, 126>>, -106>>,
        <<1, <<11431, 27962, 26313, 167>>, -52>>>>,
      <<<<-1, <<9033, 14631, 31539, 190>>, -107>>,
        <<1, <<13089, 8911, 11701, 84>>, -51>>>>,
      <<<<-1, <<14431, 31262, 31514, 198>>, -108>>,
        <<1, <<10177, 22173, 26710, 84>>, -51>>>>,
      <<<<-1, <<11899, 27771, 9357, 88>>, -106>>,
        <<1, <<4623, 5307, 18067, 170>>, -52>>>>,
      <<<<1, <<27591, 6397, 27146, 76>>, -105>>,
        <<1, <<5101, 14005, 24206, 85>>, -51>>>>,
      <<<<1, <<6917, 24341, 25308, 220>>, -108>>,
        <<1, <<18429, 10543, 13387, 172>>, -52>>>>,
      <<<<1, <<21513, 17464, 3975, 131>>, -106>>,
        <<1, <<21545, 14992, 11295, 173>>, -52>>>>,
      <<<<1, <<25461, 20505, 3850, 83>>, -111>>,
        <<1, <<18103, 5298, 9370, 174>>, -52>>>>,
      <<<<1, <<16437, 22217, 19352, 161>>, -106>>,
        <<1, <<9257, 17771, 29623, 21>>, -49>>>>,
      <<<<-1, <<30367, 17202, 4393, 231>>, -107>>,
        <<1, <<23561, 29421, 6022, 176>>, -52>>>>,
      <<<<-1, <<27061, 20219, 6626, 28>>, -104>>,
        <<1, <<21893, 24692, 4602, 177>>, -52>>>>,
      <<<<-1, <<29911, 2347, 9969, 81>>, -106>>,
        <<1, <<26137, 25420, 18536, 5>>, -47>>>>,
      <<<<-1, <<19211, 24085, 26478, 19>>, -103>>,
        <<1, <<8741, 1194, 2274, 179>>, -52>>>>,
      <<<<1, <<1625, 16447, 4266, 46>>, -108>>,
        <<1, <<10611, 10393, 1367, 180>>, -52>>>>,
      <<<<-1, <<17477, 28631, 23031, 19>>, -103>>,
        <<1, <<15309, 19710, 633, 181>>, -52>>>>,
      <<<<-1, <<23745, 1844, 9563, 104>>, -108>>,
        <<1, <<23231, 27159, 73, 182>>, -52>>>>,
      <<<<-1, <<21751, 14445, 20447, 77>>, -108>>,
        <<1, <<6703, 30922, 32456, 182>>, -52>>>>,
      <<<<-1, <<2129, 10689, 28917, 134>>, -107>>,
        <<1, <<25889, 31912, 32637, 45>>, -50>>>>,
      <<<<-1, <<16079, 31924, 32145, 192>>, -108>>,
        <<1, <<6109, 29814, 8053, 46>>, -50>>>>,
      <<<<-1, <<14299, 22545, 15250, 11>>, -103>>,
        <<1, <<24669, 9298, 16282, 46>>, -50>>>>,
      <<<<-1, <<29509, 7765, 12900, 88>>, -106>>,
        <<1, <<26569, 11396, 32685, 186>>, -52>>>>,
      <<<<1, <<21715, 15379, 29485, 132>>, -106>>,
        <<1, <<23871, 8124, 421, 188>>, -52>>>>,
      <<<<-1, <<9501, 29339, 19314, 217>>, -108>>,
        <<1, <<391, 26582, 1105, 189>>, -52>>>>,
      <<<<1, <<16491, 10447, 13301, 167>>, -106>>,
        <<1, <<24729, 304, 986, 95>>, -51>>>>,
      <<<<1, <<27733, 22444, 12166, 175>>, -109>>,
        <<1, <<10033, 14031, 17894, 95>>, -51>>>>,
      <<<<-1, <<26529, 12211, 17290, 98>>, -106>>,
        <<1, <<3337, 21566, 2126, 96>>, -51>>>>,
      <<<<-1, <<19917, 30877, 27062, 38>>, -104>>,
        <<1, <<19987, 12953, 5670, 193>>, -52>>>>,
      <<<<-1, <<32655, 14873, 15624, 65>>, -106>>,
        <<1, <<18349, 3143, 7273, 194>>, -52>>>>,
      <<<<-1, <<11191, 22642, 10401, 83>>, -105>>,
        <<1, <<4845, 13961, 9062, 195>>, -52>>>>,
      <<<<1, <<1861, 26459, 8538>>, -97>>,
        <<1, <<26265, 13076, 11039, 196>>, -52>>>>,
      <<<<1, <<15021, 24824, 14127, 59>>, -105>>,
        <<1, <<8411, 1109, 13205, 197>>, -52>>>>,
      <<<<-1, <<26623, 14731, 22914, 173>>, -109>>,
        <<1, <<20771, 2906, 20274, 49>>, -50>>>>,
      <<<<1, <<22481, 11513, 30339, 55>>, -106>>,
        <<1, <<15259, 6421, 25437, 99>>, -51>>>>,
      <<<<-1, <<15747, 20028, 9342, 152>>, -106>>,
        <<1, <<32739, 2961, 10422, 100>>, -51>>>>,
      <<<<-1, <<7721, 5848, 9954, 237>>, -110>>,
        <<1, <<17893, 24987, 23774, 201>>, -52>>>>,
      <<<<-1, <<14681, 31009, 4069, 225>>, -109>>,
        <<1, <<21007, 6032, 26899, 202>>, -52>>>>,
      <<<<-1, <<31957, 8948, 1670, 73>>, -105>>,
        <<1, <<25829, 21499, 24416, 12>>, -48>>>>,
      <<<<-1, <<3659, 11981, 10675, 174>>, -107>>,
        <<1, <<989, 28874, 16866, 102>>, -51>>>>,
      <<<<1, <<20007, 22307, 16368, 141>>, -108>>,
        <<1, <<16137, 12372, 28964, 12>>, -48>>>>,
      <<<<1, <<29627, 16916, 18647, 238>>, -109>>,
        <<1, <<8995, 13254, 8588, 207>>, -52>>>>,
      <<<<-1, <<8803, 17604, 5136, 190>>, -107>>,
        <<1, <<25957, 30395, 12697, 208>>, -52>>>>,
      <<<<1, <<12757, 18372, 29211, 216>>, -107>>,
        <<1, <<11571, 22676, 17007, 209>>, -52>>>>,
      <<<<-1, <<15125, 10105, 28487, 141>>, -106>>,
        <<1, <<9565, 25724, 21518, 210>>, -52>>>>,
      <<<<1, <<6377, 7406, 6243, 67>>, -105>>,
        <<1, <<5739, 1228, 15567, 26>>, -49>>>>,
      <<<<1, <<23219, 23782, 9745, 163>>, -107>>,
        <<1, <<32191, 10995, 31149, 212>>, -52>>>>,
      <<<<-1, <<10093, 19399, 24525, 37>>, -105>>,
        <<1, <<31165, 16339, 1751, 107>>, -51>>>>,
      <<<<1, <<13191, 9622, 27102, 224>>, -107>>,
        <<1, <<21421, 12981, 8830, 215>>, -52>>>>,
      <<<<-1, <<27901, 19153, 30494, 65>>, -105>>,
        <<1, <<23347, 10637, 7182, 108>>, -51>>>>,
      <<<<-1, <<22365, 22236, 1970, 87>>, -109>>,
        <<1, <<5627, 28830, 20106, 217>>, -52>>>>,
      <<<<-1, <<7129, 29165, 2624, 2>>, -100>>,
        <<1, <<11421, 3557, 13029, 109>>, -51>>>>,
      <<<<-1, <<25805, 7254, 22260, 49>>, -107>>,
        <<1, <<24135, 26102, 32219, 219>>, -52>>>>,
      <<<<-1, <<2613, 22193, 15241, 143>>, -106>>,
        <<1, <<805, 12449, 19296, 110>>, -51>>>>,
      <<<<1, <<24013, 5311, 32604, 167>>, -108>>,
        <<1, <<24809, 4171, 6205, 111>>, -51>>>>,
      <<<<-1, <<9771, 32073, 15867, 35>>, -104>>,
        <<1, <<7689, 14254, 19209, 223>>, -52>>>>,
      <<<<1, <<3251, 24926, 15032, 155>>, -108>>,
        <<1, <<21671, 28354, 6555, 56>>, -50>>>>,
      <<<<1, <<32613, 11855, 25394, 61>>, -105>>,
        <<1, <<26685, 24575, 342, 113>>, -51>>>>,
      <<<<1, <<22123, 26756, 24719, 41>>, -105>>,
        <<1, <<20811, 23727, 8132, 227>>, -52>>>>,
      <<<<1, <<6759, 28828, 14012, 158>>, -109>>,
        <<1, <<26549, 10253, 15798, 228>>, -52>>>>,
      <<<<1, <<17197, 6948, 13718, 23>>, -106>>,
        <<1, <<4201, 14815, 23683, 229>>, -52>>>>,
      <<<<-1, <<23273, 972, 5169, 66>>, -106>>,
        <<1, <<25085, 21853, 15894, 115>>, -51>>>>,
      <<<<-1, <<31343, 32767, 13684, 253>>, -107>>,
        <<1, <<25183, 9475, 1837, 58>>, -50>>>>,
      <<<<-1, <<10569, 28907, 14008, 128>>, -106>>,
        <<1, <<17657, 2061, 24334, 116>>, -51>>>>,
      <<<<1, <<1959, 19578, 3606, 165>>, -108>>,
        <<1, <<9351, 14839, 24675, 234>>, -52>>>>,
      <<<<-1, <<8719, 16512, 18040, 148>>, -107>>,
        <<1, <<12403, 17842, 16497, 29>>, -49>>>>,
      <<<<1, <<25771, 27360, 23120, 60>>, -105>>,
        <<1, <<12933, 1974, 10136, 237>>, -52>>>>,
      <<<<1, <<27467, 22530, 26982, 161>>, -107>>,
        <<1, <<3491, 7984, 14948, 7>>, -47>>>>,
      <<<<-1, <<15903, 3944, 21636, 150>>, -107>>,
        <<1, <<7007, 26359, 29276, 239>>, -52>>>>,
      <<<<-1, <<3529, 30350, 10980, 201>>, -107>>,
        <<1, <<8489, 10731, 6424, 241>>, -52>>>>,
      <<<<1, <<2259, 16501, 22545, 165>>, -108>>,
        <<1, <<8187, 26507, 8285, 121>>, -51>>>>,
      <<<<1, <<29297, 9018, 6065, 158>>, -107>>,
        <<1, <<19587, 30606, 26951, 243>>, -52>>>>,
      <<<<-1, <<14623, 20986, 32196, 15>>, -103>>,
        <<1, <<18541, 8868, 18783, 122>>, -51>>>>,
      <<<<-1, <<29821, 17478, 14947, 237>>, -107>>,
        <<1, <<26609, 23324, 15648, 246>>, -52>>>>,
      <<<<1, <<17409, 4202, 25054, 30>>, -104>>,
        <<1, <<23079, 23746, 26735, 247>>, -52>>>>,
      <<<<1, <<30105, 17321, 22313, 80>>, -106>>,
        <<1, <<14999, 28375, 5292, 249>>, -52>>>>,
      <<<<1, <<17143, 12753, 18770, 105>>, -106>>,
        <<1, <<14613, 13019, 29959, 3>>, -46>>>>,
      <<<<-1, <<25581, 18551, 24299, 241>>, -107>>,
        <<1, <<12165, 22222, 31741, 62>>, -50>>>>,
      <<<<1, <<19869, 6947, 9453, 188>>, -108>>,
        <<1, <<21019, 24679, 21472, 31>>, -49>>>>,
      <<<<1, <<19593, 705, 5893, 152>>, -110>>,
        <<1, <<29169, 22302, 20232, 254>>, -52>>>>>>

\* The registers of a computation: each constant under its name.
PowRegisters == [n \in DOMAIN PowConstants |-> Double(PowConstants[n])]

\* The number of bits of a table index: the tables have 2^7 intervals.
PowTableBits == 7

\* The high 20 bits of the fraction of 0x1.69555p-1, where the logarithm's
\* first interval begins.
PowOff == 431445

\* The high 20 fraction bits of the double a.
TopFraction(a) ==
    BToInt(BShr(BShl(a.man, Precision - BLen(a.man)), 32)) - 2 ^ 20

\* The place of a's fraction above the first interval's beginning, negative
\* when below.
PowOffset(a) == TopFraction(a) - PowOff

\* The interval of the logarithm's table that holds a's fraction.
PowIndex(a) == (PowOffset(a) % (2 ^ 20)) \div (2 ^ (20 - PowTableBits))

\* k with a = 2^k * z and z in [0x1.69555p-1, 0x1.69555p0).
PowExponent(a) ==
    a.exp + BLen(a.man) - 1 + (IF PowOffset(a) >= 0 THEN 1 ELSE 0)

\* The machine after the instruction <<d, a, b, s, c>> its counter pc is
\* at: register d becomes a * b + s * c, rounded once.
PowStep(row, m) ==
    [pc   |-> m.pc + 1,
     regs |-> (row[1] :> Fma(m.regs[row[2]], m.regs[row[3]],
                             IF row[4] = 1 THEN m.regs[row[5]]
                             ELSE Neg(m.regs[row[5]])))
              @@ m.regs]

\* The registers after the instructions of program from the machine m on.
RECURSIVE PowRun(_, _)
PowRun(program, m) ==
    IF m.pc > Len(program) THEN m.regs
    ELSE PowRun(program, PowStep(program[m.pc], m))

\* hi + lo = log(z * 2^kd), then ehi + elo = 2 * (hi + lo), then
\* kd2 = round(ehi * 128 / ln 2), in the order of the instructions.
PowLogProgram ==
    <<<<"t1",   "kd",  "Ln2hi", 1,  "logc">>,     \* kd * Ln2hi + logc
      <<"lo1",  "kd",  "Ln2lo", 1,  "logctail">>, \* kd * Ln2lo + logctail
      <<"r",    "z",   "invc",  -1, "one">>,      \* z / c - 1, exact
      <<"ar",   "r",   "A0",    1,  "zero">>,
      <<"p12",  "r",   "A2",    1,  "A1">>,       \* A1 + r * A2
      <<"p34",  "r",   "A4",    1,  "A3">>,       \* A3 + r * A4
      <<"t2",   "r",   "one",   1,  "t1">>,       \* t1 + r
      <<"ar2",  "r",   "ar",    1,  "zero">>,
      <<"d1",   "t1",  "one",   -1, "t2">>,
      <<"ar3",  "r",   "ar2",   1,  "zero">>,
      <<"lo3",  "ar",  "r",     -1, "ar2">>,      \* the error of ar2
      <<"lo2",  "d1",  "one",   1,  "r">>,        \* t1 - t2 + r
      <<"p56",  "r",   "A6",    1,  "A5">>,       \* A5 + r * A6
      <<"hi",   "t2",  "one",   1,  "ar2">>,
      <<"d2",   "t2",  "one",   -1, "hi">>,
      <<"p36",  "p56", "ar2",   1,  "p34">>,      \* A3 + r * A4 + ar2 * p56
      <<"lo4",  "d2",  "one",   1,  "ar2">>,      \* t2 - hi + ar2
      <<"p",    "ar2", "p36",   1,  "p12">>,      \* A1 + r * A2 + ar2 * p36
      <<"s1",   "lo1", "one",   1,  "lo2">>,
      <<"s2",   "s1",  "one",   1,  "lo3">>,
      <<"s3",   "s2",  "one",   1,  "lo4">>,
      <<"lo",   "ar3", "p",     1,  "s3">>,       \* lo1 + lo2 + lo3 + lo4 + ar3 * p
      <<"y",    "hi",  "one",   1,  "lo">>,       \* log(x), high part
      <<"d3",   "hi",  "one",   -1, "y">>,
      <<"tail", "d3",  "one",   1,  "lo">>,       \* log(x), low part
      <<"ehi",  "two", "y",     1,  "zero">>,     \* 2 * log(x), high part
      <<"e0",   "y",   "two",   -1, "ehi">>,
      <<"elo",  "two", "tail",  1,  "e0">>,       \* 2 * log(x), low part
      <<"kds",  "ehi", "InvLn2N", 1, "Shift">>,   \* to the nearest integer
      <<"kd2",  "kds", "one",   -1, "Shift">>>>

\* exp(ehi + elo) = scale * 2^(kd2 / 128 - j / 128) * exp(er), in the order
\* of the instructions.
PowExpProgram ==
    <<<<"r0",   "kd2", "NegLn2hiN", 1, "ehi">>,
      <<"r1",   "kd2", "NegLn2loN", 1, "r0">>,
      <<"er",   "elo", "one",   1,  "r1">>,       \* ehi + elo - kd2 * ln 2 / 128
      <<"c23",  "er",  "C3",    1,  "C2">>,       \* C2 + er * C3
      <<"w",    "er",  "one",   1,  "etail">>,    \* etail + er
      <<"er2",  "er",  "er",    1,  "zero">>,
      <<"c45",  "er",  "C5",    1,  "C4">>,       \* C4 + er * C5
      <<"u",    "c23", "er2",   1,  "w">>,
      <<"er4",  "er2", "er2",   1,  "zero">>,
      <<"tmp",  "c45", "er4",   1,  "u">>,
      <<"result", "tmp", "scale", 1, "scale">>>>  \* scale + scale * tmp

\* The registers the logarithm starts from, for the double a > 0, given its
\* exponent k and its row of the logarithm's table.
PowStart(a, k, row) ==
    [z |-> [a EXCEPT !.exp = @ - k], kd |-> FromInt(k),
     invc |-> Double(row[1]), logc |-> Double(row[2]),
     logctail |-> Double(row[3])] @@ PowRegisters

\* a * 2^e.
Scaled(a, e) == [a EXCEPT !.exp = @ + e]

\* The registers the exponential starts from: with n = kd2 and j = n mod
\* 128, the table's tail and 2^(j/128), the latter times 2^(n div 128).
PowLookup(regs, n) ==
    [etail |-> Double(PowExpTable[(n % (2 ^ PowTableBits)) + 1][1]),
     scale |-> Scaled(Double(PowExpTable[(n % (2 ^ PowTableBits)) + 1][2]),
                      n \div (2 ^ PowTableBits))] @@ regs

\* The registers after the exponential, from those after the logarithm.
PowExp(regs) ==
    PowRun(PowExpProgram,
           [pc |-> 1, regs |-> PowLookup(regs, IntPart(regs.kd2))])

\* The result of pow's instructions for a double a > 0 and the exponent 2.
PowInstructions(a) ==
    PowExp(PowRun(PowLogProgram,
                  [pc   |-> 1,
                   regs |-> PowStart(a, PowExponent(a),
                                     PowLogTable[PowIndex(a) + 1])])).result

\* Whether man, cut to Precision bits, drops bits within 1/16 of a unit of
\* half a unit of the last bit kept: the four bits below it are 0111 or
\* 1000, or fewer than four bits are dropped.
NearTie(man) ==
    LET s == BLen(man) - Precision
    IN  s >= 1 /\ (s < 4 \/ (Limb(BShr(man, s - 4), 1) % 16) \in {7, 8})

\* pow(a, 2.0) of the C library, for a double a > 0 other than 1. The
\* instructions' result is within 0.54 units of the last place of a * a
\* (the bound the library's e_pow.c gives), so it is the double nearest to
\* a * a wherever a * a is not near the middle between two doubles; near
\* the middle the instructions decide, and there they can pick the farther
\* double.
Pow(a) ==
    IF NearTie(BMul(a.man, a.man)) THEN PowInstructions(a) ELSE Mul(a, a)

\* a ** 2: the exact square of an int; of a float, 0.0 for 0.0 and 1.0 for
\* 1.0 and -1.0, which CPython answers itself, and else pow(|a|, 2.0).
Square(a) ==
    IF a.int THEN Times(TRUE, a, a)
    ELSE IF a.sign = 0 THEN Zero
    ELSE IF a.man = <<1>> /\ a.exp = 0 THEN FromInt(1)
    ELSE Pow([a EXCEPT !.sign = 1])


----------------------------------------------------------------------------
(* Waypoint.                                                               *)

\* Waypoint.__init__: z and time are optional; a missing z is 0.
Waypoint(x, y, z, time) ==
    [x |-> x, y |-> y, z |-> IF z # None THEN z[1] ELSE IntOf(0),
     time |-> time]

\* A faulty variant of distance_to: the 2D branch taken, altitude left out.
distance_to_2d(self, other_waypoint) ==
    Sqrt(Add(Square(Sub(self.x, other_waypoint.x)),
               Square(Sub(self.y, other_waypoint.y))))

\* Waypoint.distance_to: every Waypoint has a z attribute, so the 3D branch
\* is the one taken.
distance_to(self, other_waypoint) ==
    Sqrt(Add(Add(Square(Sub(self.x, other_waypoint.x)),
                    Square(Sub(self.y, other_waypoint.y))),
               Square(Sub(self.z, other_waypoint.z))))

\* A faulty variant of DistanceLess: distance <= safety_buffer.
DistanceAtMost(dist, buffer) == ~Less(IntOf(buffer), dist)

\* Line 168: distance < self.safety_buffer, the buffer a whole number.
DistanceLess(dist, buffer) == Less(dist, IntOf(buffer))

----------------------------------------------------------------------------
(* DroneTrajectory.                                                        *)

\* __init__, lines 38-41: the end time given, else the last waypoint's.
ResolveEndTime(waypoints, end_time) ==
    IF end_time = None /\ waypoints[Len(waypoints)].time # None
    THEN waypoints[Len(waypoints)].time
    ELSE end_time

AllTimed(waypoints) == \A i \in 1..Len(waypoints) : waypoints[i].time # None

\* The loop of lines 56-59: the length of each segment.
Segments(waypoints) ==
    [i \in 1..(Len(waypoints) - 1) |->
        distance_to(waypoints[i], waypoints[i + 1])]

\* The loop of lines 56-59: total_distance after the segments from i on are
\* added to it, one after the other.
RECURSIVE SumFrom(_, _, _)
SumFrom(segments, i, total_distance) ==
    IF i > Len(segments) THEN total_distance
    ELSE SumFrom(segments, i + 1, Add(total_distance, segments[i]))

\* Line 70: the share of the duration that falls to a segment.
SegmentTime(segment, total_distance, total_duration) ==
    IF Less(IntOf(0), total_distance)
    THEN Mul(Div(segment, total_distance), total_duration)
    ELSE IntOf(0)

RECURSIVE TimesLoop(_, _, _, _, _, _, _)

\* Line 72 and the rest of the loop: elapsed is the time up to the end of
\* segment i.
TimesAppend(segments, total_distance, total_duration, start_time, i, elapsed, times) ==
    TimesLoop(segments, total_distance, total_duration, start_time, i + 1,
              elapsed, Append(times, start_time + Microseconds(elapsed)))

\* A faulty variant of TimesLoop: elapsed is set to the segment's time, not advanced
\* by it.
TimesLoopNoAccumulate(segments, total_distance, total_duration, start_time, i, elapsed, times) ==
    IF i > Len(segments) THEN times
    ELSE TimesAppend(segments, total_distance, total_duration, start_time, i,
             SegmentTime(segments[i], total_distance, total_duration),
             times)

\* The loop of lines 68-72, from segment i on.
TimesLoop(segments, total_distance, total_duration, start_time, i, elapsed, times) ==
    IF i > Len(segments) THEN times
    ELSE TimesAppend(segments, total_distance, total_duration, start_time, i,
             Add(elapsed,
                  SegmentTime(segments[i], total_distance, total_duration)),
             times)

\* Lines 52-74, given the segments' lengths.
TimesFrom(segments, start_time, end_time) ==
    TimesLoop(segments, SumFrom(segments, 1, IntOf(0)),
              TotalSeconds(end_time[1] - start_time), start_time,
              1, IntOf(0), <<start_time>>)

\* _calculate_waypoint_times, for a call that does not raise.
calculate_waypoint_times(waypoints, start_time, end_time) ==
    IF AllTimed(waypoints)
    THEN [i \in 1..Len(waypoints) |-> waypoints[i].time[1]]
    ELSE TimesFrom(Segments(waypoints), start_time, end_time)

\* How DroneTrajectory(drone_id, waypoints, start_time, end_time) ends:
\* waypoints[-1] of an empty list raises IndexError (line 38, reached only
\* when end_time is None); None - start_time raises TypeError (line 62,
\* reached only when some waypoint has no time).
ConstructionOutcome(waypoints, start_time, end_time) ==
    IF end_time = None /\ Len(waypoints) = 0 THEN "IndexError"
    ELSE IF ~AllTimed(waypoints) /\ ResolveEndTime(waypoints, end_time) = None
    THEN "TypeError"
    ELSE "ok"

\* DroneTrajectory.__init__, for a call that does not raise.
DroneTrajectory(drone_id, waypoints, start_time, end_time) ==
    LET e == IF Len(waypoints) = 0 THEN end_time
             ELSE ResolveEndTime(waypoints, end_time)
    IN  [drone_id |-> drone_id,
         waypoints |-> waypoints,
         start_time |-> start_time,
         end_time |-> e,
         waypoint_times |-> calculate_waypoint_times(waypoints, start_time, e)]

\* get_position_at_time raises IndexError on an empty schedule (line 79).
PositionRaises(self) == Len(self.waypoint_times) = 0

\* Lines 92-93, for t2 != t1.
Factor(t1, t2, query_time) ==
    Div(TotalSeconds(query_time - t1), TotalSeconds(t2 - t1))

\* Lines 95-97, one coordinate.
Lerp(a, b, factor) == Add(a, Mul(factor, Sub(b, a)))

\* Lines 95-99: the position returned.
Interpolate(wp1, wp2, factor, query_time) ==
    Some(Waypoint(Lerp(wp1.x, wp2.x, factor), Lerp(wp1.y, wp2.y, factor),
                  Some(Lerp(wp1.z, wp2.z, factor)), Some(query_time)))

\* A faulty variant of PositionLoop: on a zero-length interval the factor is 1, so
\* the interval's second waypoint is returned.
RECURSIVE PositionLoopSecond(_, _, _)
PositionLoopSecond(self, query_time, i) ==
    IF i > Len(self.waypoint_times) - 1 THEN None
    ELSE IF /\ self.waypoint_times[i] <= query_time
            /\ query_time <= self.waypoint_times[i + 1]
    THEN Interpolate(self.waypoints[i], self.waypoints[i + 1],
             IF self.waypoint_times[i + 1] # self.waypoint_times[i]
             THEN Factor(self.waypoint_times[i], self.waypoint_times[i + 1],
                         query_time)
             ELSE IntOf(1),
             query_time)
    ELSE PositionLoopSecond(self, query_time, i + 1)

\* The loop of lines 83-99, from interval i on: the first interval that
\* holds query_time decides.
RECURSIVE PositionLoop(_, _, _)
PositionLoop(self, query_time, i) ==
    IF i > Len(self.waypoint_times) - 1 THEN None
    ELSE IF /\ self.waypoint_times[i] <= query_time
            /\ query_time <= self.waypoint_times[i + 1]
    THEN Interpolate(self.waypoints[i], self.waypoints[i + 1],
             IF self.waypoint_times[i + 1] # self.waypoint_times[i]
             THEN Factor(self.waypoint_times[i], self.waypoint_times[i + 1],
                         query_time)
             ELSE IntOf(0),
             query_time)
    ELSE PositionLoop(self, query_time, i + 1)

\* get_position_at_time, for a call that does not raise: None or <<Waypoint>>.
get_position_at_time(self, query_time) ==
    IF \/ query_time < self.waypoint_times[1]
       \/ query_time > self.waypoint_times[Len(self.waypoint_times)]
    THEN None
    ELSE PositionLoop(self, query_time, 1)

----------------------------------------------------------------------------
(* Conflict and DeconflictionService.                                      *)

Conflict(drone1_id, drone2_id, location, time, distance) ==
    [drone1_id |-> drone1_id, drone2_id |-> drone2_id, location |-> location,
     time |-> time, distance |-> distance]

\* A faulty variant of Midpoint: the first vehicle's position.
MidpointOfFirst(pos1, pos2, current_time) ==
    Waypoint(pos1.x, pos1.y, Some(pos1.z), Some(current_time))

\* Lines 170-172, one coordinate: (a + b) / 2.
Halfway(a, b) == Div(Add(a, b), IntOf(2))

\* Lines 170-172 and 177: the coordinate-wise midpoint, at current_time.
Midpoint(pos1, pos2, current_time) ==
    Waypoint(Halfway(pos1.x, pos2.x), Halfway(pos1.y, pos2.y),
             Some(Halfway(pos1.z, pos2.z)), Some(current_time))

\* _find_conflicts raises IndexError on an empty schedule (lines 151-152).
FindRaises(trajectory1, trajectory2) ==
    Len(trajectory1.waypoint_times) = 0 \/ Len(trajectory2.waypoint_times) = 0

\* A faulty variant of WhileCondition: the window's end left out.
WhileConditionExclusive(current_time, end_time) == current_time < end_time

\* Line 160: the condition of the sampling loop.
WhileCondition(current_time, end_time) == current_time <= end_time

\* Lines 168-181: conflicts after the distance of the two positions is
\* compared with the buffer.
SampleCompare(buffer, trajectory1, trajectory2, current_time, conflicts, pos1, pos2, distance) ==
    IF DistanceLess(distance, buffer)
    THEN Append(conflicts,
             Conflict(trajectory1.drone_id, trajectory2.drone_id,
                      Midpoint(pos1, pos2, current_time),
                      current_time, distance))
    ELSE conflicts

\* Lines 165-181: conflicts after what the two get_position_at_time calls
\* returned is looked at.
SamplePositions(buffer, trajectory1, trajectory2, current_time, conflicts, pos1, pos2) ==
    IF pos1 # None /\ pos2 # None
    THEN SampleCompare(buffer, trajectory1, trajectory2, current_time,
                       conflicts, pos1[1], pos2[1],
                       distance_to(pos1[1], pos2[1]))
    ELSE conflicts

\* Lines 162-181, one sample: conflicts after the sample at current_time.
SampleBody(buffer, trajectory1, trajectory2, current_time, conflicts) ==
    SamplePositions(buffer, trajectory1, trajectory2, current_time, conflicts,
                    get_position_at_time(trajectory1, current_time),
                    get_position_at_time(trajectory2, current_time))

\* The while loop of lines 160-183 from current_time on, for a positive step.
RECURSIVE SampleLoop(_, _, _, _, _, _, _)
SampleLoop(buffer, step, trajectory1, trajectory2, current_time, end_time, conflicts) ==
    IF ~WhileCondition(current_time, end_time) THEN conflicts
    ELSE SampleLoop(buffer, step, trajectory1, trajectory2,
                    current_time + step, end_time,
                    SampleBody(buffer, trajectory1, trajectory2, current_time,
                               conflicts))

WindowStart(trajectory1, trajectory2) ==
    Max(trajectory1.waypoint_times[1], trajectory2.waypoint_times[1])

WindowEnd(trajectory1, trajectory2) ==
    Min(trajectory1.waypoint_times[Len(trajectory1.waypoint_times)],
        trajectory2.waypoint_times[Len(trajectory2.waypoint_times)])

\* A faulty variant of find_conflicts: the two trajectories compared by the time
\* elapsed since each one's own start, the second one's schedule moved to
\* start with the first's.
find_conflicts_by_elapsed(buffer, step, trajectory1, trajectory2) ==
    LET shift == trajectory1.waypoint_times[1] - trajectory2.waypoint_times[1]
        moved == [trajectory2 EXCEPT !.waypoint_times =
                     [i \in 1..Len(trajectory2.waypoint_times) |->
                         trajectory2.waypoint_times[i] + shift]]
        start_time == WindowStart(trajectory1, moved)
        end_time   == WindowEnd(trajectory1, moved)
    IN  IF start_time > end_time THEN <<>>
        ELSE SampleLoop(buffer, step, trajectory1, moved,
                        start_time, end_time, <<>>)

\* _find_conflicts of a service with this buffer and step, for a call that
\* does not raise.
find_conflicts(buffer, step, trajectory1, trajectory2) ==
    LET start_time == WindowStart(trajectory1, trajectory2)
        end_time   == WindowEnd(trajectory1, trajectory2)
    IN  IF start_time > end_time THEN <<>>
        ELSE SampleLoop(buffer, step, trajectory1, trajectory2,
                        start_time, end_time, <<>>)

\* A faulty variant of register_trajectory: the registry keyed by vehicle id, a
\* trajectory with a registered id put in the place of the one registered.
register_trajectory_by_id(registry, trajectory) ==
    IF \E i \in 1..Len(registry) : registry[i].drone_id = trajectory.drone_id
    THEN [i \in 1..Len(registry) |->
             IF registry[i].drone_id = trajectory.drone_id THEN trajectory
             ELSE registry[i]]
    ELSE Append(registry, trajectory)

\* register_trajectory, line 127: the registry after the call.
register_trajectory(registry, trajectory) == Append(registry, trajectory)

\* A faulty variant of SkipsSelf: only the mission object itself is passed over.
SkipsSameObject(other_trajectory, mission_trajectory) ==
    other_trajectory = mission_trajectory

\* Line 134: the registered trajectories check_mission_safety passes over.
SkipsSelf(other_trajectory, mission_trajectory) ==
    other_trajectory.drone_id = mission_trajectory.drone_id

\* A faulty variant of CheckLoop: each pair's conflicts are put before those found
\* so far.
RECURSIVE CheckLoopPrepend(_, _, _, _, _, _, _)
CheckLoopPrepend(buffer, step, registry, mission_trajectory, i, conflicts, searched) ==
    IF i > Len(registry)
    THEN [raised |-> FALSE, conflicts |-> conflicts, searched |-> searched]
    ELSE IF SkipsSelf(registry[i], mission_trajectory)
    THEN CheckLoopPrepend(buffer, step, registry, mission_trajectory, i + 1,
                          conflicts, searched)
    ELSE IF FindRaises(mission_trajectory, registry[i])
    THEN [raised |-> TRUE, conflicts |-> <<>>, searched |-> Append(searched, i)]
    ELSE CheckLoopPrepend(buffer, step, registry, mission_trajectory, i + 1,
             find_conflicts(buffer, step, mission_trajectory, registry[i])
             \o conflicts,
             Append(searched, i))

\* The for loop of lines 133-139 from registry index i on.  searched lists
\* the indices handed to _find_conflicts; raised tells that one of those
\* calls raised, which ends check_mission_safety.
RECURSIVE CheckLoop(_, _, _, _, _, _, _)
CheckLoop(buffer, step, registry, mission_trajectory, i, conflicts, searched) ==
    IF i > Len(registry)
    THEN [raised |-> FALSE, conflicts |-> conflicts, searched |-> searched]
    ELSE IF SkipsSelf(registry[i], mission_trajectory)
    THEN CheckLoop(buffer, step, registry, mission_trajectory, i + 1,
                   conflicts, searched)
    ELSE IF FindRaises(mission_trajectory, registry[i])
    THEN [raised |-> TRUE, conflicts |-> <<>>, searched |-> Append(searched, i)]
    ELSE CheckLoop(buffer, step, registry, mission_trajectory, i + 1,
                   conflicts \o find_conflicts(buffer, step, mission_trajectory,
                                               registry[i]),
                   Append(searched, i))

\* A faulty variant of StatusOf: the test inverted.
StatusOfInverted(conflicts) ==
    IF conflicts # <<>> THEN "clear" ELSE "conflict detected"

\* Line 142.
StatusOf(conflicts) == IF conflicts = <<>> THEN "clear" ELSE "conflict detected"

\* Lines 141-144, after the for loop ended as r tells.
CheckReturn(r) ==
    IF r.raised
    THEN [outcome |-> "IndexError", status |-> "", conflicts |-> <<>>,
          searched |-> r.searched]
    ELSE [outcome |-> "returned", status |-> StatusOf(r.conflicts),
          conflicts |-> r.conflicts, searched |-> r.searched]

\* check_mission_safety: what the call returns, or that it raised.
check_mission_safety(buffer, step, registry, mission_trajectory) ==
    CheckReturn(CheckLoop(buffer, step, registry, mission_trajectory, 1, <<>>, <<>>))

NoCall == [outcome |-> "none"]

\* No check_mission_safety call is being followed.
Idle == [pc |-> "idle"]

----------------------------------------------------------------------------
(* The operations, as actions.                                             *)

\* t = DroneTrajectory(drone_id, waypoints, start_time, end_time): a call
\* that raises leaves the caller without a trajectory.
Construct(drone_id, waypoints, start_time, end_time) ==
    /\ given' = [drone_id |-> drone_id, waypoints |-> waypoints,
                 start_time |-> start_time, end_time |-> end_time]
    /\ built' = ConstructionOutcome(waypoints, start_time, end_time)
    /\ traj' = IF built' = "ok"
               THEN Some(DroneTrajectory(drone_id, waypoints, start_time, end_time))
               ELSE None
    /\ pos' = NoCall
    /\ result' = NoCall
    /\ previous' = NoCall
    /\ found' = NoCall
    /\ running' = Idle
    /\ UNCHANGED <<safety_buffer, time_step, registered_trajectories>>

\* service.register_trajectory(t), while the registry holds fewer than cap.
Register(cap) ==
    /\ traj # None
    /\ Len(registered_trajectories) < cap
    /\ registered_trajectories' =
           register_trajectory(registered_trajectories, traj[1])
    /\ result' = NoCall
    /\ previous' = NoCall
    /\ found' = NoCall
    /\ running' = Idle
    /\ UNCHANGED <<safety_buffer, time_step, given, traj, built, pos>>

\* service.check_mission_safety(t).
Check ==
    /\ traj # None
    /\ result' = check_mission_safety(safety_buffer, time_step,
                                      registered_trajectories, traj[1])
    /\ previous' = result
    /\ UNCHANGED <<safety_buffer, time_step, registered_trajectories, given, traj,
                   built, pos, found, running>>

\* t.get_position_at_time(query_time).
GetPosition(query_time) ==
    /\ traj # None
    /\ pos' = IF PositionRaises(traj[1])
              THEN [outcome |-> "IndexError", query_time |-> query_time,
                    value |-> None]
              ELSE [outcome |-> "returned", query_time |-> query_time,
                    value |-> get_position_at_time(traj[1], query_time)]
    /\ UNCHANGED <<safety_buffer, time_step, registered_trajectories, given, traj,
                   built, result, previous, found, running>>

\* service._find_conflicts(t, registered_trajectories[i]).
FindConflicts(i) ==
    /\ traj # None
    /\ i \in 1..Len(registered_trajectories)
    /\ found' = IF FindRaises(traj[1], registered_trajectories[i])
                THEN [outcome |-> "IndexError", other |-> i, conflicts |-> <<>>]
                ELSE [outcome |-> "returned", other |-> i,
                      conflicts |-> find_conflicts(safety_buffer, time_step,
                                        traj[1], registered_trajectories[i])]
    /\ UNCHANGED <<safety_buffer, time_step, registered_trajectories, given, traj,
                   built, pos, result, previous, running>>

\* The call followed is inside check_mission_safety.
Active == running.pc \in {"for", "while"}

\* How many samples of one search are followed when the step does not
\* advance the time.
MaxSamples == 6

\* service.check_mission_safety(t) entered: line 131.  sampled and searched
\* record, for each _find_conflicts call made, the sample instants it
\* evaluated and the registry index it was given.
CallCheck ==
    /\ traj # None
    /\ ~Active
    /\ running' = [pc |-> "for", i |-> 1, conflicts |-> <<>>,
                   searched |-> <<>>, sampled |-> <<>>]
    /\ UNCHANGED <<safety_buffer, time_step, registered_trajectories, given, traj,
                   built, pos, result, previous, found>>

\* Lines 133-138 and, inside _find_conflicts, lines 148-159: the next
\* registered trajectory is passed over, or searched up to the sampling
\* loop; an empty schedule raises IndexError out of check_mission_safety.
ForStep ==
    /\ running.pc = "for"
    /\ running.i <= Len(registered_trajectories)
    /\ LET other_trajectory   == registered_trajectories[running.i]
           mission_trajectory == traj[1]
           start_time == WindowStart(mission_trajectory, other_trajectory)
           end_time   == WindowEnd(mission_trajectory, other_trajectory)
           searched   == Append(running.searched, running.i)
       IN  IF SkipsSelf(other_trajectory, mission_trajectory)
           THEN running' = [running EXCEPT !.i = @ + 1]
           ELSE IF FindRaises(mission_trajectory, other_trajectory)
           THEN running' = [pc |-> "raised", outcome |-> "IndexError",
                            searched |-> searched]
           ELSE IF start_time > end_time
           THEN running' = [running EXCEPT !.i = @ + 1,
                                          !.searched = searched,
                                          !.sampled = Append(@, 0)]
           ELSE running' = [pc |-> "while", i |-> running.i,
                            conflicts |-> running.conflicts,
                            searched |-> searched,
                            sampled |-> running.sampled,
                            trajectory_conflicts |-> <<>>,
                            current_time |-> start_time,
                            end_time |-> end_time,
                            count |-> 0]
    /\ UNCHANGED <<safety_buffer, time_step, registered_trajectories, given, traj,
                   built, pos, result, previous, found>>

\* Lines 160-183: one pass of the sampling loop.
WhileStep ==
    /\ running.pc = "while"
    /\ WhileCondition(running.current_time, running.end_time)
    /\ time_step > 0 \/ running.count < MaxSamples
    /\ running' = [running EXCEPT
           !.trajectory_conflicts =
               SampleBody(safety_buffer, traj[1],
                          registered_trajectories[running.i],
                          running.current_time, @),
           !.current_time = @ + time_step,
           !.count = @ + 1]
    /\ UNCHANGED <<safety_buffer, time_step, registered_trajectories, given, traj,
                   built, pos, result, previous, found>>

\* Line 160 false, line 185 and line 139: the search returns and its
\* conflicts extend the call's.
WhileExit ==
    /\ running.pc = "while"
    /\ ~WhileCondition(running.current_time, running.end_time)
    /\ running' = [pc |-> "for", i |-> running.i + 1,
                   conflicts |-> running.conflicts \o running.trajectory_conflicts,
                   searched |-> running.searched,
                   sampled |-> Append(running.sampled, running.count)]
    /\ UNCHANGED <<safety_buffer, time_step, registered_trajectories, given, traj,
                   built, pos, result, previous, found>>

\* Lines 141-144: the for loop is over and the call returns.
Return ==
    /\ running.pc = "for"
    /\ running.i > Len(registered_trajectories)
    /\ running' = [pc |-> "returned", status |-> StatusOf(running.conflicts),
                   conflicts |-> running.conflicts,
                   searched |-> running.searched,
                   sampled |-> running.sampled]
    /\ UNCHANGED <<safety_buffer, time_step, registered_trajectories, given, traj,
                   built, pos, result, previous, found>>

\* DeconflictionService(safety_buffer_distance, time_step), and no
\* trajectory built yet.
ServiceInit(buffers, steps) ==
    /\ safety_buffer \in buffers
    /\ time_step \in steps
    /\ registered_trajectories = <<>>
    /\ given = NoCall
    /\ traj = None
    /\ built = "none"
    /\ pos = NoCall
    /\ result = NoCall
    /\ previous = NoCall
    /\ found = NoCall
    /\ running = Idle

----------------------------------------------------------------------------
(* Inputs.                                                                 *)

\* Every sequence over S of length at most n.
RECURSIVE SeqsUpTo(_, _)
SeqsUpTo(S, n) ==
    IF n = 0 THEN {<<>>}
    ELSE LET shorter == SeqsUpTo(S, n - 1)
         IN  shorter \cup {Append(w, e) : w \in {v \in shorter : Len(v) = n - 1}, e \in S}

\* Waypoint(x, y, z, time) with int coordinates.
Pt(x, y, z, time) == Waypoint(IntOf(x), IntOf(y), Some(IntOf(z)), time)

\* The float literal with the digits n and one decimal place: n / 10.
Tenths(n) == Div(IntOf(n), IntOf(10))

\* SpecTraj: trajectories of up to MaxWaypoints waypoints over three points
\* (the first a 2D waypoint, built without z) whose mutual distances are
\* 5, 12 and 13, each waypoint untimed or timed, with and without an end
\* time, the end before, at and after the start; and the trajectories of
\* RoundingInputs.
MaxWaypoints == 3

TrajIds == {"primary"}

TrajStamps == {None, Some(0), Some(10)}

TrajWaypoints ==
    {Waypoint(IntOf(0), IntOf(0), None, t) : t \in TrajStamps}
    \cup {Pt(3, 4, 0, t) : t \in TrajStamps}
    \cup {Pt(3, 4, 12, t) : t \in TrajStamps}

TrajLists == SeqsUpTo(TrajWaypoints, MaxWaypoints)

TrajStarts == {0, 10}

TrajEnds == {None, Some(0), Some(10)}

\* Trajectories the rounding of doubles decides: three whose second
\* waypoint is due 3.5, 10.5 and 2.5 microseconds after the start in exact
\* arithmetic, one with segments of length sqrt(2) and 1, and one between
\* the float coordinates 1.1 and 0.1.
RoundingInputs ==
    {<<<<Pt(0, 0, 0, None), Pt(1, 0, 0, None), Pt(6, 0, 0, None)>>, 0, Some(21)>>,
     <<<<Pt(0, 0, 0, None), Pt(7, 0, 0, None), Pt(8, 0, 0, None)>>, 0, Some(12)>>,
     <<<<Pt(0, 0, 0, None), Pt(1, 0, 0, None), Pt(4, 0, 0, None)>>, 0, Some(10)>>,
     <<<<Pt(0, 0, 0, None), Pt(1, 1, 0, None), Pt(2, 1, 0, None)>>, 0, Some(1000)>>,
     <<<<Waypoint(Tenths(11), Zero, Some(Zero), None),
         Waypoint(Tenths(1), Zero, Some(Zero), None)>>, 0, Some(10)>>}

TrajInputs ==
    {<<w, s, e>> : w \in TrajLists, s \in TrajStarts, e \in TrajEnds}
    \cup RoundingInputs

QueryTimes == {-1, 0, 5, 10, 11}

InitTraj == ServiceInit({10}, {1})

\* Construction reads no state, so a behaviour of SpecTraj builds one
\* trajectory and then queries it.
ConstructTraj ==
    /\ built = "none"
    /\ \E id \in TrajIds, in \in TrajInputs : Construct(id, in[1], in[2], in[3])

QueryTraj == \E q \in QueryTimes : GetPosition(q)

NextTraj == ConstructTraj \/ QueryTraj

SpecTraj == InitTraj /\ [][NextTraj]_vars

\* The scenarios' numbers.
PathLength == 40

CloseOffset == 19

FarOffset == 21

AltitudeGap == 100

ScenarioBuffer == 20

LowBuffer == 80

HighBuffer == 120

\* A straight two-waypoint path along x in the lane (y, z), there or back.
Lane(y, z, forward) ==
    IF forward
    THEN <<Pt(0, y, z, None), Pt(PathLength, y, z, None)>>
    ELSE <<Pt(PathLength, y, z, None), Pt(0, y, z, None)>>

\* The path of Lane(0, 0, TRUE) moved d along x.
Ahead(d) == <<Pt(d, 0, 0, None), Pt(PathLength + d, 0, 0, None)>>

\* A slanted path, and the same path moved by (16, 12, 0), which is
\* ScenarioBuffer away.  Two thirds of the way the interpolated positions
\* differ by 15.999999999999996 and 12.000000000000002; the square of the
\* latter lies in the middle between two doubles, ** 2 gives the lower one,
\* and the separation measured is 19.999999999999996.
Slant == <<Pt(22, 22, 0, None), Pt(20, 3, 0, None)>>

SlantBeside == <<Pt(38, 34, 0, None), Pt(36, 15, 0, None)>>

\* Spec: a registry of up to MaxRegistered trajectories and a mission, each
\* one of two vehicles flying one of two parallel lanes, the first lane in
\* one of two time windows, or a trajectory of no waypoints (which the
\* constructor accepts when an end time is given).
MaxRegistered == 2

Ids == {"primary", "other"}

RegInputs ==
    {<<Lane(0, 0, TRUE), <<0, 8>>>>,
     <<Lane(0, 0, TRUE), <<2, 10>>>>,
     <<Lane(CloseOffset, 0, TRUE), <<0, 8>>>>,
     <<<<>>, <<0, 8>>>>}

Init == ServiceInit({ScenarioBuffer}, {2, 3})

ConstructMission ==
    \E id \in Ids, in \in RegInputs :
        Construct(id, in[1], in[2][1], Some(in[2][2]))

Next == ConstructMission \/ Register(MaxRegistered) \/ Check

Spec == Init /\ [][Next]_vars

\* SpecPair: one registered trajectory, the first lane in one of two time
\* windows, the slanted path or a single waypoint, and one more, which
\* flies the slanted path moved sideways or one of four
\* lanes at one altitude (offset sideways by 0, CloseOffset, ScenarioBuffer
\* and FarOffset), the first or second of them backwards, the lane
\* AltitudeGap above the first, the first lane moved ScenarioBuffer along
\* itself, or a single waypoint, in one of four time windows.
PairFirst ==
    {<<Lane(0, 0, TRUE), <<0, 8>>>>,
     <<Lane(0, 0, TRUE), <<0, 6>>>>,
     <<Slant, <<0, 6>>>>,
     <<<<Pt(0, 0, 0, None)>>, <<0, 8>>>>}

PairLists ==
    {Lane(y, 0, TRUE) : y \in {0, CloseOffset, ScenarioBuffer, FarOffset}}
    \cup {Lane(y, 0, FALSE) : y \in {0, CloseOffset}}
    \cup {Lane(0, AltitudeGap, TRUE), Ahead(ScenarioBuffer), SlantBeside,
          <<Pt(0, 0, 0, None)>>}

PairWindows == {<<0, 8>>, <<4, 12>>, <<10, 14>>, <<0, 6>>}

InitPair == ServiceInit({ScenarioBuffer, LowBuffer, HighBuffer}, {2, 3})

\* Construction reads no state, so a behaviour of SpecPair builds one
\* trajectory, registers it, and builds at most one more.
ConstructPair ==
    \/ /\ built = "none"
       /\ \E in \in PairFirst :
              Construct("other", in[1], in[2][1], Some(in[2][2]))
    \/ /\ Len(registered_trajectories) = 1
       /\ traj = Some(registered_trajectories[1])
       /\ \E id \in Ids, w \in PairLists, win \in PairWindows :
              Construct(id, w, win[1], Some(win[2]))

RegisterFirst == Register(1)

FindPair == FindConflicts(1)

NextPair == ConstructPair \/ RegisterFirst \/ FindPair

SpecPair == InitPair /\ [][NextPair]_vars

\* SpecLoop: check_mission_safety followed statement by statement, under a
\* positive step and under a step of zero.  The registry and the mission are
\* vehicles on one path in one of three time windows, a vehicle of one
\* waypoint, or one of none.  A call once entered runs on: the caller builds
\* and registers only between calls.
LoopWindows == {<<0, 8>>, <<4, 12>>, <<10, 14>>}

LoopInputs ==
    {<<id, Lane(0, 0, TRUE), win>> : id \in Ids, win \in LoopWindows}
    \cup {<<"other", <<Pt(0, 0, 0, None)>>, <<0, 8>>>>,
          <<"other", <<>>, <<0, 8>>>>}

InitLoop == ServiceInit({ScenarioBuffer}, {0, 2, 3})

ConstructLoop ==
    /\ ~Active
    /\ \E in \in LoopInputs : Construct(in[1], in[2], in[3][1], Some(in[3][2]))

RegisterLoop == ~Active /\ Register(MaxRegistered)

RunLoop == ForStep \/ WhileStep \/ WhileExit \/ Return

NextLoop == ConstructLoop \/ RegisterLoop \/ CallCheck \/ RunLoop

\* ENABLED <<WhileStep>>_vars, written out: the guard of WhileStep, every
\* step of which changes running.
CanStep ==
    /\ running.pc = "while"
    /\ WhileCondition(running.current_time, running.end_time)
    /\ time_step > 0 \/ running.count < MaxSamples

\* The interpreter keeps executing a call that has a next statement: weak
\* fairness of each statement, at most one of which can be taken in a
\* state.  For WhileStep it is stated with CanStep:
\* WF_vars(A) is []<>~ENABLED <<A>>_vars \/ []<><<A>>_vars.
FairRun ==
    /\ WF_vars(ForStep)
    /\ WF_vars(WhileExit)
    /\ WF_vars(Return)
    /\ []<>~CanStep \/ []<><<WhileStep>>_vars

SpecLoop == InitLoop /\ [][NextLoop]_vars /\ FairRun

----------------------------------------------------------------------------
(* Properties of trajectory construction and interpolation (SpecTraj).     *)

NonDecreasing(times) ==
    \A i \in 1..(Len(times) - 1) : times[i] <= times[i + 1]

NonIncreasing(times) ==
    \A i \in 1..(Len(times) - 1) : times[i] >= times[i + 1]

\* Some two consecutive waypoints are at different places.
PathMoves(waypoints) ==
    \E i \in 1..(Len(waypoints) - 1) :
        \/ ~Equal(waypoints[i].x, waypoints[i + 1].x)
        \/ ~Equal(waypoints[i].y, waypoints[i + 1].y)
        \/ ~Equal(waypoints[i].z, waypoints[i + 1].z)

\* What the data model asks of a trajectory: two waypoints or more, and an
\* end time not before the start time.
WellFormed(t) ==
    /\ Len(t.waypoints) >= 2
    /\ t.end_time[1] >= t.start_time

SamePlace(p, w) == Equal(p.x, w.x) /\ Equal(p.y, w.y) /\ Equal(p.z, w.z)

\* The first waypoint the schedule puts at time q.
EarliestAt(times, q) ==
    CHOOSE i \in 1..Len(times) :
        times[i] = q /\ \A j \in 1..(i - 1) : times[j] # q

\* C3 as stated, for trajectories of two waypoints or more with a
\* non-decreasing schedule: the position at schedule[0] is the first
\* waypoint and the position at schedule[last] is the last waypoint.
C3_BoundaryIsEndpoint ==
    (traj # None /\ pos.outcome = "returned") =>
        LET t     == traj[1]
            times == t.waypoint_times
            n     == Len(times)
            q     == pos.query_time
        IN  (n >= 2 /\ NonDecreasing(times)) =>
              /\ q = times[1] =>
                    pos.value # None /\ SamePlace(pos.value[1], t.waypoints[1])
              /\ q = times[n] =>
                    pos.value # None /\ SamePlace(pos.value[1], t.waypoints[n])

\* a + 1.0 * (b - a) in doubles: what interpolation gives at the end of an
\* interval of positive length between the coordinates a and b.
Arrival(a, b) == Add(a, Mul(FromInt(1), Sub(b, a)))

\* p is where interpolation from wp1 to wp2 arrives.
ArrivesAt(p, wp1, wp2) ==
    /\ Equal(p.x, Arrival(wp1.x, wp2.x))
    /\ Equal(p.y, Arrival(wp1.y, wp2.y))
    /\ Equal(p.z, Arrival(wp1.z, wp2.z))

\* A whole number of magnitude below 2^52: differences and sums of two of
\* them are exact in doubles.
Whole(a) == a.sign = 0 \/ (a.exp >= 0 /\ BLen(a.man) + a.exp <= Precision - 1)

WholeCoordinates(w) == Whole(w.x) /\ Whole(w.y) /\ Whole(w.z)

\* C3, amended: for a trajectory of two waypoints or more with a
\* non-decreasing schedule, the position at schedule[0] is the first
\* waypoint, and the position at schedule[last] is the first waypoint when
\* every timestamp is equal, and otherwise where interpolation arrives in
\* the interval ending at the earliest waypoint scheduled at that time:
\* that waypoint when the coordinates are whole numbers, and the last
\* waypoint when, in addition, the last interval has a positive length.
C3_BoundaryIsEarliest ==
    (traj # None /\ pos.outcome = "returned") =>
        LET t     == traj[1]
            times == t.waypoint_times
            n     == Len(times)
            q     == pos.query_time
            e     == EarliestAt(times, q)
            whole == \A i \in 1..n : WholeCoordinates(t.waypoints[i])
        IN  (n >= 2 /\ NonDecreasing(times)) =>
              /\ q = times[1] =>
                    pos.value # None /\ SamePlace(pos.value[1], t.waypoints[1])
              /\ q = times[n] =>
                    /\ pos.value # None
                    /\ e = 1 => SamePlace(pos.value[1], t.waypoints[1])
                    /\ e > 1 => ArrivesAt(pos.value[1], t.waypoints[e - 1],
                                          t.waypoints[e])
                    /\ whole => SamePlace(pos.value[1], t.waypoints[e])
                    /\ (whole /\ times[n - 1] < times[n]) =>
                          SamePlace(pos.value[1], t.waypoints[n])

\* C3's case: the schedule ends in a zero-length interval after a positive
\* one, the last two waypoints apart, and the query at schedule[last]
\* answered with the earlier of the two.
C3_Witness ==
    /\ traj # None
    /\ pos.outcome = "returned"
    /\ LET t     == traj[1]
           times == t.waypoint_times
           n     == Len(times)
       IN  /\ n >= 3
           /\ NonDecreasing(times)
           /\ times[n - 2] < times[n - 1]
           /\ times[n - 1] = times[n]
           /\ pos.query_time = times[n]
           /\ pos.value # None
           /\ SamePlace(pos.value[1], t.waypoints[n - 1])
           /\ ~SamePlace(pos.value[1], t.waypoints[n])

\* C4 as stated, for well-formed input: one timestamp per waypoint, the
\* schedule non-decreasing, its first entry the start time and its last the
\* end time.
C4_ScheduleSpansMission ==
    (traj # None /\ WellFormed(traj[1])) =>
        LET t     == traj[1]
            times == t.waypoint_times
        IN  /\ Len(times) = Len(t.waypoints)
            /\ NonDecreasing(times)
            /\ times[1] = t.start_time
            /\ times[Len(times)] = t.end_time[1]

\* C4, amended: every constructed trajectory has one timestamp per
\* waypoint.  With every waypoint timed the schedule is those timestamps in
\* order.  Otherwise its first entry is the start time, it is
\* non-decreasing when the end is not before the start and non-increasing
\* when it is, and its last entry is the end time when the path has a
\* positive length and the start time when it has none.
C4_ScheduleByBranch ==
    traj # None =>
        LET t     == traj[1]
            times == t.waypoint_times
            n     == Len(times)
        IN  /\ n = Len(t.waypoints)
            /\ AllTimed(t.waypoints) =>
                  \A i \in 1..n : times[i] = t.waypoints[i].time[1]
            /\ ~AllTimed(t.waypoints) =>
                  /\ n >= 1
                  /\ times[1] = t.start_time
                  /\ t.end_time[1] >= t.start_time => NonDecreasing(times)
                  /\ t.end_time[1] <= t.start_time => NonIncreasing(times)
                  /\ times[n] = IF PathMoves(t.waypoints) THEN t.end_time[1]
                                ELSE t.start_time

\* C4's case: well-formed input of three waypoints at one place, not all
\* timed, the end after the start: the schedule collapses to the start time.
C4_Witness ==
    /\ traj # None
    /\ WellFormed(traj[1])
    /\ Len(traj[1].waypoints) = 3
    /\ ~AllTimed(traj[1].waypoints)
    /\ ~PathMoves(traj[1].waypoints)
    /\ traj[1].end_time[1] > traj[1].start_time
    /\ traj[1].waypoint_times[3] = traj[1].start_time

Malformed(g) ==
    \/ Len(g.waypoints) < 2
    \/ g.end_time # None /\ g.end_time[1] < g.start_time

\* C5 as stated: constructing a trajectory from an empty waypoint list, from
\* fewer than two waypoints or with an end time before the start time
\* raises, and produces no trajectory.
C5_MalformedInputRaises ==
    (built # "none" /\ Malformed(given)) => (built # "ok" /\ traj = None)

----------------------------------------------------------------------------
(* Properties of the pairwise search (SpecPair).  In a state where found   *)
(* holds a call's return, the call was _find_conflicts(traj[1],            *)
(* registered_trajectories[found.other]).                                  *)

First(times) == times[1]

Last(times) == times[Len(times)]

\* The larger of the two schedule starts is after the smaller of the two
\* schedule ends.
WindowsDisjoint(a, b) ==
    LET starts == {First(a.waypoint_times), First(b.waypoint_times)}
        ends   == {Last(a.waypoint_times), Last(b.waypoint_times)}
    IN  \E s \in starts, e \in ends :
            /\ \A s2 \in starts : s >= s2
            /\ \A e2 \in ends : e <= e2
            /\ s > e

\* The sample instants window_start + k * step not after window_end.
Samples(a, b, step) ==
    LET lo == CHOOSE s \in {First(a.waypoint_times), First(b.waypoint_times)} :
                  s >= First(a.waypoint_times) /\ s >= First(b.waypoint_times)
        hi == CHOOSE e \in {Last(a.waypoint_times), Last(b.waypoint_times)} :
                  e <= Last(a.waypoint_times) /\ e <= Last(b.waypoint_times)
    IN  {t \in lo..hi : (t - lo) % step = 0}

\* The separation measured at time t, when both positions are defined: the
\* square root of the sum of the squared coordinate differences of the two
\* interpolated positions, each step rounded to a double.
Separation(a, b, t) ==
    LET p == get_position_at_time(a, t)[1]
        q == get_position_at_time(b, t)[1]
    IN  Sqrt(Add(Add(Square(Sub(p.x, q.x)), Square(Sub(p.y, q.y))),
                   Square(Sub(p.z, q.z))))

\* Both positions are defined at t and are strictly closer than buffer.
StrictlyCloser(a, b, t, buffer) ==
    /\ get_position_at_time(a, t) # None
    /\ get_position_at_time(b, t) # None
    /\ Less(Separation(a, b, t), IntOf(buffer))

\* b flies a's path on a's schedule, moved by (0, dy, dz) or by (0, -dy, -dz).
Shifted(a, b, dy, dz) ==
    /\ Len(a.waypoints) >= 2
    /\ Len(b.waypoints) = Len(a.waypoints)
    /\ b.waypoint_times = a.waypoint_times
    /\ \E sign \in {1, -1} :
           \A i \in 1..Len(a.waypoints) :
               /\ Equal(b.waypoints[i].x, a.waypoints[i].x)
               /\ Equal(b.waypoints[i].y, Add(a.waypoints[i].y, IntOf(sign * dy)))
               /\ Equal(b.waypoints[i].z, Add(a.waypoints[i].z, IntOf(sign * dz)))

\* C2: two trajectories whose time windows do not overlap yield no
\* conflict, wherever their waypoints are and whatever the buffer and step.
C2_DisjointWindowsNoConflicts ==
    found.outcome = "returned" =>
        (WindowsDisjoint(traj[1], registered_trajectories[found.other])
            => found.conflicts = <<>>)

\* C2's case: the same path flown in two disjoint windows, searched.
C2_Witness ==
    /\ found.outcome = "returned"
    /\ WindowsDisjoint(traj[1], registered_trajectories[found.other])
    /\ traj[1].waypoints = registered_trajectories[found.other].waypoints
    /\ Len(traj[1].waypoints) >= 2
    /\ traj[1].drone_id # registered_trajectories[found.other].drone_id
    /\ found.conflicts = <<>>

\* C6: find_conflicts(A, B) and find_conflicts(B, A) return as many records,
\* with the same time, distance and location in the same order and the two
\* vehicle ids swapped.
C6_SwappedSearchAgrees ==
    found.outcome = "returned" =>
        LET c    == found.conflicts
            back == find_conflicts(safety_buffer, time_step,
                                   registered_trajectories[found.other], traj[1])
        IN  /\ Len(back) = Len(c)
            /\ \A i \in 1..Len(c) :
                   /\ back[i].time = c[i].time
                   /\ back[i].distance = c[i].distance
                   /\ back[i].location = c[i].location
                   /\ back[i].drone1_id = c[i].drone2_id
                   /\ back[i].drone2_id = c[i].drone1_id

\* C6's case: two vehicles on different paths in different, overlapping
\* windows, with conflicts found.
C6_Witness ==
    /\ found.outcome = "returned"
    /\ Len(found.conflicts) >= 2
    /\ LET a == traj[1]
           b == registered_trajectories[found.other]
       IN  /\ a.drone_id # b.drone_id
           /\ a.waypoints # b.waypoints
           /\ a.waypoint_times # b.waypoint_times

\* C9: find_conflicts returns one record for each sample instant at which
\* the two positions are strictly closer than the buffer and none for any
\* other instant, in ascending time; a record holds the instant, the
\* separation measured there and the midpoint.  Two paths flown side by side
\* CloseOffset apart under a buffer of ScenarioBuffer give a record at every
\* sample, FarOffset apart none, and the buffer apart none.
C9_OneRecordPerCloseSample ==
    (found.outcome = "returned" /\ time_step > 0) =>
        LET a == traj[1]
            b == registered_trajectories[found.other]
            c == found.conflicts
            S == Samples(a, b, time_step)
        IN  /\ {c[i].time : i \in 1..Len(c)} =
                   {t \in S : StrictlyCloser(a, b, t, safety_buffer)}
            /\ \A i \in 1..(Len(c) - 1) : c[i].time < c[i + 1].time
            /\ \A i \in 1..Len(c) :
                   LET p == get_position_at_time(a, c[i].time)[1]
                       q == get_position_at_time(b, c[i].time)[1]
                       l == c[i].location
                   IN  /\ c[i].distance = Separation(a, b, c[i].time)
                       /\ Less(c[i].distance, IntOf(safety_buffer))
                       /\ l.x = Div(Add(p.x, q.x), IntOf(2))
                       /\ l.y = Div(Add(p.y, q.y), IntOf(2))
                       /\ l.z = Div(Add(p.z, q.z), IntOf(2))
                       /\ l.time = Some(c[i].time)
            /\ (safety_buffer = ScenarioBuffer /\ Shifted(a, b, CloseOffset, 0))
                   => Len(c) = Cardinality(S)
            /\ (safety_buffer = ScenarioBuffer /\ Shifted(a, b, FarOffset, 0))
                   => c = <<>>
            /\ Shifted(a, b, safety_buffer, 0) => c = <<>>

\* C9's case: side by side CloseOffset apart, buffer ScenarioBuffer, a
\* record at each of several samples.
C9_Witness ==
    /\ found.outcome = "returned"
    /\ safety_buffer = ScenarioBuffer
    /\ Shifted(traj[1], registered_trajectories[found.other], CloseOffset, 0)
    /\ Len(found.conflicts) >= 3
    /\ Len(found.conflicts) =
           Cardinality(Samples(traj[1], registered_trajectories[found.other],
                               time_step))

\* C10: separation counts altitude.  Two vehicles on the same horizontal
\* path and schedule, AltitudeGap apart vertically, give no conflict under a
\* buffer of LowBuffer and a conflict at every sample under HighBuffer.
C10_AltitudeSeparates ==
    (found.outcome = "returned"
        /\ Shifted(traj[1], registered_trajectories[found.other], 0, AltitudeGap))
    => LET S == Samples(traj[1], registered_trajectories[found.other], time_step)
       IN  /\ safety_buffer = LowBuffer => found.conflicts = <<>>
           /\ safety_buffer = HighBuffer =>
                  /\ Len(found.conflicts) = Cardinality(S)
                  /\ Len(found.conflicts) >= 1

\* C10's case: AltitudeGap apart under LowBuffer, searched over several
\* samples with nothing found.
C10_Witness ==
    /\ found.outcome = "returned"
    /\ Shifted(traj[1], registered_trajectories[found.other], 0, AltitudeGap)
    /\ safety_buffer = LowBuffer
    /\ Cardinality(Samples(traj[1], registered_trajectories[found.other],
                           time_step)) >= 3
    /\ found.conflicts = <<>>

\* t has no position at q exactly when q is before its schedule's first
\* entry or after its last.
NoneOnlyOutside(t, q) ==
    (get_position_at_time(t, q) = None) <=>
        (q < First(t.waypoint_times) \/ q > Last(t.waypoint_times))

\* C12 as stated: a trajectory has no position at a time exactly when the
\* time is before schedule[0] or after schedule[last], so at every sample
\* instant of a search both positions are defined and none is skipped.
C12_PositionInsideWindow ==
    found.outcome = "returned" =>
        LET a == traj[1]
            b == registered_trajectories[found.other]
        IN  /\ \A t \in {a, b} :
                   \A q \in (First(t.waypoint_times) - 1)
                                ..(Last(t.waypoint_times) + 1) :
                       NoneOnlyOutside(t, q)
            /\ \A q \in Samples(a, b, time_step) :
                   /\ get_position_at_time(a, q) # None
                   /\ get_position_at_time(b, q) # None

----------------------------------------------------------------------------
(* Properties of check_mission_safety (Spec).  In a state where result     *)
(* holds a call's outcome, the call was check_mission_safety(traj[1]) on   *)
(* the registry as it stands.                                              *)

\* The registry indices whose vehicle id differs from id, ascending.
RECURSIVE OthersFrom(_, _, _)
OthersFrom(registry, id, i) ==
    IF i > Len(registry) THEN <<>>
    ELSE (IF registry[i].drone_id # id THEN <<i>> ELSE <<>>)
         \o OthersFrom(registry, id, i + 1)

\* lists[j], lists[j + 1], ... one after the other.
RECURSIVE Concatenation(_, _)
Concatenation(lists, j) ==
    IF j > Len(lists) THEN <<>>
    ELSE lists[j] \o Concatenation(lists, j + 1)

\* C1: check never searches against a registered trajectory with the
\* mission's id, so no conflict returned names the mission twice, and a
\* registry holding only the mission's id gives "clear" and no conflict.
C1_OwnIdNeverSearched ==
    result.outcome # "none" =>
        LET id == traj[1].drone_id
            R  == registered_trajectories
        IN  /\ \A k \in 1..Len(result.searched) :
                   R[result.searched[k]].drone_id # id
            /\ \A k \in 1..Len(result.conflicts) :
                   ~(/\ result.conflicts[k].drone1_id = id
                     /\ result.conflicts[k].drone2_id = id)
            /\ (\A i \in 1..Len(R) : R[i].drone_id = id) =>
                   /\ result.outcome = "returned"
                   /\ result.status = "clear"
                   /\ result.conflicts = <<>>

\* C1's case: the registry holds only the mission's id, on a path and in a
\* window where another vehicle would conflict with the mission.
C1_Witness ==
    /\ result.outcome = "returned"
    /\ Len(registered_trajectories) = 2
    /\ \A i \in 1..2 : registered_trajectories[i].drone_id = traj[1].drone_id
    /\ registered_trajectories[1] # traj[1]
    /\ ~FindRaises(traj[1], registered_trajectories[1])
    /\ find_conflicts(safety_buffer, time_step, traj[1],
                      registered_trajectories[1]) # <<>>
    /\ result.status = "clear"

\* C7: the conflicts check returns are the per-pair lists of the mission
\* against each registered trajectory of another id, in registration order;
\* each list is in ascending time and names the mission first and the
\* registered vehicle second.  Registered trajectories that share an id
\* each contribute.
C7_ConcatenationInRegistrationOrder ==
    result.outcome = "returned" =>
        LET R      == registered_trajectories
            m      == traj[1]
            others == OthersFrom(R, m.drone_id, 1)
            lists  == [j \in 1..Len(others) |->
                          find_conflicts(safety_buffer, time_step, m,
                                         R[others[j]])]
        IN  /\ result.searched = others
            /\ result.conflicts = Concatenation(lists, 1)
            /\ \A j \in 1..Len(others) :
                   /\ \A i \in 1..Len(lists[j]) :
                          /\ lists[j][i].drone1_id = m.drone_id
                          /\ lists[j][i].drone2_id = R[others[j]].drone_id
                   /\ \A i \in 1..(Len(lists[j]) - 1) :
                          lists[j][i].time < lists[j][i + 1].time

\* C7's case: two registered trajectories share an id that is not the
\* mission's, differ, and each contributes records.
C7_Witness ==
    /\ result.outcome = "returned"
    /\ Len(registered_trajectories) = 2
    /\ LET R  == registered_trajectories
           c1 == find_conflicts(safety_buffer, time_step, traj[1], R[1])
           c2 == find_conflicts(safety_buffer, time_step, traj[1], R[2])
       IN  /\ R[1].drone_id = R[2].drone_id
           /\ R[1].drone_id # traj[1].drone_id
           /\ R[1] # R[2]
           /\ c1 # <<>>
           /\ c2 # <<>>
           /\ c1 # c2
           /\ result.conflicts = c1 \o c2

\* C8: the status check returns is "clear" when it returns no conflict and
\* "conflict detected" when it returns some, and nothing else.
C8_StatusTellsConflicts ==
    result.outcome = "returned" =>
        /\ result.status \in {"clear", "conflict detected"}
        /\ result.status = "clear" <=> Len(result.conflicts) = 0

\* C8's case: a check that returns conflicts.
C8_Witness ==
    /\ result.outcome = "returned"
    /\ Len(result.conflicts) >= 1
    /\ result.status = "conflict detected"

\* C11: no call changes the safety buffer or the sampling step; the registry
\* is changed only by register, which puts the trajectory after the entries
\* held, each of them kept in its place, whatever its id; a check changes
\* neither the registry nor the mission, and a check repeated on the same
\* registry and mission returns what the one before returned.
C11_OnlyRegisterAppends ==
    /\ [](previous.outcome # "none" => result = previous)
    /\ [][/\ safety_buffer' = safety_buffer
          /\ time_step' = time_step
          /\ registered_trajectories' # registered_trajectories =>
                 LET n == Len(registered_trajectories)
                 IN  /\ traj # None
                     /\ traj' = traj
                     /\ Len(registered_trajectories') = n + 1
                     /\ \A i \in 1..n :
                            registered_trajectories'[i] = registered_trajectories[i]
                     /\ registered_trajectories'[n + 1] = traj[1]
                     /\ result' = NoCall
          /\ result'.outcome # "none" =>
                 /\ registered_trajectories' = registered_trajectories
                 /\ traj' = traj
                 /\ result.outcome # "none" => result' = result]_vars

\* C11's case: a trajectory registered under the id of one already
\* registered, both held in registration order, and a check that found
\* conflicts repeated with the same answer.
C11_Witness ==
    /\ Len(registered_trajectories) = 2
    /\ registered_trajectories[1].drone_id = registered_trajectories[2].drone_id
    /\ registered_trajectories[1] # registered_trajectories[2]
    /\ previous.outcome = "returned"
    /\ Len(previous.conflicts) >= 1
    /\ result = previous

----------------------------------------------------------------------------
(* Properties of the sampling loop (SpecLoop).  In a state where running   *)
(* is inside a call or holds its outcome, the call is                      *)
(* check_mission_safety(traj[1]) on the registry as it stands.             *)

\* floor((window_end - window_start) / step) + 1 for overlapping windows,
\* and 0 for windows that do not overlap; step positive.
ExpectedSamples(a, b, step) ==
    IF WindowStart(a, b) > WindowEnd(a, b) THEN 0
    ELSE (WindowEnd(a, b) - WindowStart(a, b)) \div step + 1

\* Followed statement by statement under a positive step, the call ends as
\* check_mission_safety ends.
StepwiseMatchesCall ==
    (time_step > 0 /\ running.pc \in {"returned", "raised"}) =>
        LET r == check_mission_safety(safety_buffer, time_step,
                                      registered_trajectories, traj[1])
        IN  /\ running.searched = r.searched
            /\ running.pc = "raised" => r.outcome = running.outcome
            /\ running.pc = "returned" =>
                   /\ r.outcome = "returned"
                   /\ r.status = running.status
                   /\ r.conflicts = running.conflicts

\* C13: under a positive step every search evaluates
\* floor((window_end - window_start) / step) + 1 sample instants when the
\* two windows overlap and none when they do not, the k-th at
\* window_start + (k - 1) * step, and every call of check that is entered
\* ends.  Under a step of zero a search of overlapping windows stays in its
\* loop at the same instant, and a call returns only if no search it made
\* had overlapping windows.
C13_LoopEndsIffStepPositive ==
    /\ [](running.pc = "returned" =>
            /\ Len(running.sampled) = Len(running.searched)
            /\ \A k \in 1..Len(running.searched) :
                   LET b == registered_trajectories[running.searched[k]]
                   IN  IF time_step > 0
                       THEN running.sampled[k] =
                                ExpectedSamples(traj[1], b, time_step)
                       ELSE /\ running.sampled[k] = 0
                            /\ WindowStart(traj[1], b) > WindowEnd(traj[1], b))
    /\ [](running.pc = "while" =>
            LET b == registered_trajectories[running.i]
            IN  /\ WindowStart(traj[1], b) <= WindowEnd(traj[1], b)
                /\ running.current_time =
                       WindowStart(traj[1], b) + running.count * time_step
                /\ time_step > 0 =>
                       running.count <= ExpectedSamples(traj[1], b, time_step))
    /\ [][(time_step = 0 /\ running.pc = "while") =>
              /\ running'.pc = "while"
              /\ running'.current_time = running.current_time]_vars
    /\ ((time_step > 0 /\ Active) ~> ~Active)

\* C13's case: a call under a step that does not divide the window has
\* returned after two searches, one of overlapping windows with three
\* samples or more and one of windows that do not overlap.
C13_Witness ==
    /\ running.pc = "returned"
    /\ time_step > 0
    /\ Len(running.searched) = 2
    /\ \E k \in 1..2 :
           LET b == registered_trajectories[running.searched[k]]
           IN  /\ running.sampled[k] >= 3
               /\ (WindowEnd(traj[1], b) - WindowStart(traj[1], b)) % time_step # 0
    /\ \E k \in 1..2 : running.sampled[k] = 0

====
